---------------------------- MODULE Spec2Model ----------------------------
(***************************************************************************)
(* Model of the job-posting extraction and normalization pipeline:         *)
(* JobParser (app/parsers/job_parser.py) and DataCleaner                   *)
(* (app/parsers/data_cleaner.py).                                          *)
(*                                                                         *)
(* Text is modelled character by character: a Python str is a TLA+ string, *)
(* read with Len, SubSeq and \o.  The input alphabet is ASCII, on which    *)
(* unicodedata.normalize('NFKD', .) changes nothing.  Regular expressions  *)
(* are pattern trees matched by a backtracking matcher with the priority   *)
(* order of Python's re (leftmost match, greedy repetition, alternatives   *)
(* left to right).                                                         *)
(***************************************************************************)
EXTENDS Integers, Sequences, FiniteSets, TLC

VARIABLES raw_jobs, parsed, jobs, min_quality_score, batch_out, unique_out,
          input_text, cleaned, hash_seed, extracted, in_flight, retry

vars == <<raw_jobs, parsed, jobs, min_quality_score, batch_out, unique_out,
          input_text, cleaned, hash_seed, extracted, in_flight, retry>>
\* the text handed to clean_text and what its successive calls returned
textVars == <<input_text, cleaned>>
\* the seed of the process's string hashing, and what the extraction calls
\* made on the text returned
extractVars == <<hash_seed, extracted>>
\* the calls of parse_job that have started on the shared parser and not
\* yet returned
threadVars == <<in_flight>>
\* the one call of scrape_with_retry: where it stands and what it has done
retryVars == <<retry>>

(***************************************************************************)
(* Python str                                                              *)
(***************************************************************************)
At(s, i) == SubSeq(s, i, i)
CharSet(s) == {At(s, i) : i \in 1..Len(s)}
LowerChars == "abcdefghijklmnopqrstuvwxyz"
UpperChars == "ABCDEFGHIJKLMNOPQRSTUVWXYZ"
DigitChars == "0123456789"
Lowers == CharSet(LowerChars)
Uppers == CharSet(UpperChars)
Letters == Lowers \cup Uppers
Digits == CharSet(DigitChars)
Spaces == {" ", "\t", "\n"}
WordChars == Letters \cup Digits \cup {"_"}
IndexIn(c, s) == CHOOSE i \in 1..Len(s) : At(s, i) = c
lower_char(c) == IF c \in Uppers THEN At(LowerChars, IndexIn(c, UpperChars)) ELSE c
upper_char(c) == IF c \in Lowers THEN At(UpperChars, IndexIn(c, LowerChars)) ELSE c

RECURSIVE JoinRange(_, _, _, _)
\* sep.join(parts[lo-1:hi]), put together by halves
JoinRange(parts, lo, hi, sep) ==
    IF lo > hi THEN ""
    ELSE IF lo = hi THEN parts[lo]
    ELSE JoinRange(parts, lo, (lo + hi) \div 2, sep) \o sep
         \o JoinRange(parts, (lo + hi) \div 2 + 1, hi, sep)
\* sep.join(parts[k-1:])
Join(parts, k, sep) == JoinRange(parts, k, Len(parts), sep)

lower(s) == Join([i \in 1..Len(s) |-> lower_char(At(s, i))], 1, "")
upper(s) == Join([i \in 1..Len(s) |-> upper_char(At(s, i))], 1, "")

\* str.strip(): leading and trailing whitespace removed
strip(s) ==
    LET keep == {i \in 1..Len(s) : At(s, i) \notin Spaces}
    IN  IF keep = {} THEN ""
        ELSE SubSeq(s, CHOOSE i \in keep : \A j \in keep : i <= j,
                       CHOOSE i \in keep : \A j \in keep : i >= j)

\* key in s
Contains(s, key) ==
    \E i \in 1..(Len(s) - Len(key) + 1) : SubSeq(s, i, i + Len(key) - 1) = key

\* s.startswith(prefix)
startswith(s, prefix) == Len(prefix) <= Len(s) /\ SubSeq(s, 1, Len(prefix)) = prefix

RECURSIVE SplitFrom(_, _)
\* str.split() with no argument: the maximal runs of non-whitespace
SplitFrom(s, i) ==
    IF i > Len(s) THEN <<>>
    ELSE IF At(s, i) \in Spaces THEN SplitFrom(s, i + 1)
    ELSE LET stops == {j \in i..Len(s) : At(s, j) \in Spaces}
             e == IF stops = {} THEN Len(s) + 1
                  ELSE CHOOSE j \in stops : \A k \in stops : j <= k
         IN  <<SubSeq(s, i, e - 1)>> \o SplitFrom(s, e)
split(s) == SplitFrom(s, 1)

\* str.capitalize(): first character upper-cased, the rest lower-cased
capitalize(w) == IF w = "" THEN "" ELSE upper_char(At(w, 1)) \o lower(SubSeq(w, 2, Len(w)))

\* str.title(): a letter is upper-cased when it follows a non-letter, lower-cased otherwise
title(s) ==
    Join([i \in 1..Len(s) |->
            IF i > 1 /\ At(s, i - 1) \in Letters THEN lower_char(At(s, i))
            ELSE upper_char(At(s, i))], 1, "")

(***************************************************************************)
(* Python re: pattern trees and the backtracking matcher                   *)
(***************************************************************************)
Lit(str) == [k |-> "lit", s |-> str]
In(cs) == [k |-> "set", cs |-> cs, neg |-> FALSE]
NotIn(cs) == [k |-> "set", cs |-> cs, neg |-> TRUE]
Cat(ps) == [k |-> "seq", ps |-> ps]
Alt(ps) == [k |-> "alt", ps |-> ps]
Star(p) == [k |-> "star", p |-> p]
Plus(p) == Cat(<<p, Star(p)>>)
Opt(p) == [k |-> "opt", p |-> p]
Grp(n, p) == [k |-> "grp", n |-> n, p |-> p]
Ref(n) == [k |-> "ref", n |-> n]
WB == [k |-> "wb"]
Bol == [k |-> "bol"]
Eol == [k |-> "eol"]
\* \d, \s, \w and their repetitions
D == In(Digits)
S == In(Spaces)
W == In(WordChars)

\* the capture groups of a match: <<start, end>> positions, <<0, 0>> when the group did not take part
NoGroups == <<<<0, 0>>, <<0, 0>>, <<0, 0>>, <<0, 0>>>>
NoMatch == [ok |-> FALSE, b |-> 0, e |-> 0, g |-> NoGroups]

IsWordAt(s, i) == i >= 1 /\ i <= Len(s) /\ At(s, i) \in WordChars
LitAt(str, s, i, ic) ==
    /\ i + Len(str) - 1 <= Len(s)
    /\ IF ic THEN \A k \in 1..Len(str) : lower_char(At(s, i + k - 1)) = lower_char(At(str, k))
       ELSE SubSeq(s, i, i + Len(str) - 1) = str
SetAt(p, s, i, ic) ==
    /\ i <= Len(s)
    /\ LET c == At(s, i)
           hit == c \in p.cs \/ (ic /\ (lower_char(c) \in p.cs \/ upper_char(c) \in p.cs))
       IN  hit # p.neg

\* the length of the run of characters of the set p that starts at position i
RunLength(p, s, i, ic) ==
    LET First(stops) == (CHOOSE j \in stops : \A k \in stops : j <= k) - i
    IN  First({j \in i..(Len(s) + 1) : ~SetAt(p, s, j, ic)})

\* what the head of a list of patterns is
Kind(st) == IF st = <<>> THEN "done" ELSE Head(st).k

RECURSIVE MatchK(_, _, _, _, _)
RECURSIVE FirstAlt(_, _, _, _, _, _, _, _)
RECURSIVE LongestRun(_, _, _, _, _, _, _)
\* The first way, in re's priority order, to match the patterns st one after
\* another from position i of s; g holds the groups captured so far, ic is
\* re.IGNORECASE.  Repeated patterns never match the empty string here.
MatchK(st, s, i, g, ic) ==
    CASE Kind(st) = "done" -> [ok |-> TRUE, b |-> 0, e |-> i, g |-> g]
      [] Kind(st) = "lit" /\ LitAt(Head(st).s, s, i, ic) ->
             MatchK(Tail(st), s, i + Len(Head(st).s), g, ic)
      [] Kind(st) = "set" /\ SetAt(Head(st), s, i, ic) -> MatchK(Tail(st), s, i + 1, g, ic)
      [] Kind(st) = "seq" -> MatchK(Head(st).ps \o Tail(st), s, i, g, ic)
      [] Kind(st) = "alt" -> FirstAlt(Head(st).ps, 1, Len(Head(st).ps), Tail(st), s, i, g, ic)
      [] Kind(st) = "star" /\ Head(st).p.k = "set" ->
             LongestRun(0, RunLength(Head(st).p, s, i, ic), Tail(st), s, i, g, ic)
      [] Kind(st) = "star" /\ Head(st).p.k # "set" ->
             LET r == MatchK(<<Head(st).p, Head(st)>> \o Tail(st), s, i, g, ic)
             IN  IF r.ok THEN r ELSE MatchK(Tail(st), s, i, g, ic)
      [] Kind(st) = "opt" ->
             LET r == MatchK(<<Head(st).p>> \o Tail(st), s, i, g, ic)
             IN  IF r.ok THEN r ELSE MatchK(Tail(st), s, i, g, ic)
      [] Kind(st) = "grp" ->
             MatchK(<<Head(st).p, [k |-> "end", n |-> Head(st).n, from |-> i]>> \o Tail(st),
                    s, i, g, ic)
      [] Kind(st) = "end" ->
             MatchK(Tail(st), s, i, [g EXCEPT ![Head(st).n] = <<Head(st).from, i>>], ic)
      [] Kind(st) = "ref" /\ g[Head(st).n][1] > 0
           /\ LitAt(SubSeq(s, g[Head(st).n][1], g[Head(st).n][2] - 1), s, i, ic) ->
             MatchK(Tail(st), s, i + g[Head(st).n][2] - g[Head(st).n][1], g, ic)
      [] Kind(st) = "wb" /\ IsWordAt(s, i - 1) # IsWordAt(s, i) -> MatchK(Tail(st), s, i, g, ic)
      [] Kind(st) = "bol" /\ i = 1 -> MatchK(Tail(st), s, i, g, ic)
      [] Kind(st) = "eol" /\ (i = Len(s) + 1 \/ (i = Len(s) /\ At(s, i) = "\n")) ->
             MatchK(Tail(st), s, i, g, ic)
      [] OTHER -> NoMatch

\* a|b|...: the first of the alternatives ps[lo..hi] after which the patterns
\* rest match
FirstAlt(ps, lo, hi, rest, s, i, g, ic) ==
    IF lo > hi THEN NoMatch
    ELSE IF lo = hi THEN MatchK(<<ps[lo]>> \o rest, s, i, g, ic)
    ELSE LET Later(r) ==
                 IF r.ok THEN r
                 ELSE FirstAlt(ps, (lo + hi) \div 2 + 1, hi, rest, s, i, g, ic)
         IN  Later(FirstAlt(ps, lo, (lo + hi) \div 2, rest, s, i, g, ic))

\* [set]*: the longest of the run lengths lo..hi after which the patterns rest
\* match
LongestRun(lo, hi, rest, s, i, g, ic) ==
    IF lo > hi THEN NoMatch
    ELSE IF lo = hi THEN MatchK(rest, s, i + lo, g, ic)
    ELSE LET Shorter(r) ==
                 IF r.ok THEN r
                 ELSE LongestRun(lo, (lo + hi) \div 2, rest, s, i, g, ic)
         IN  Shorter(LongestRun((lo + hi) \div 2 + 1, hi, rest, s, i, g, ic))

RECURSIVE SearchIn(_, _, _, _, _)
\* the leftmost match that starts at one of the positions lo..hi, the
\* positions tried from left to right
SearchIn(p, s, lo, hi, ic) ==
    IF lo > hi THEN NoMatch
    ELSE IF lo = hi
    THEN LET Found(r) == IF r.ok THEN [r EXCEPT !.b = lo] ELSE NoMatch
         IN  Found(MatchK(<<p>>, s, lo, NoGroups, ic))
    ELSE LET Left(r) == IF r.ok THEN r ELSE SearchIn(p, s, (lo + hi) \div 2 + 1, hi, ic)
         IN  Left(SearchIn(p, s, lo, (lo + hi) \div 2, ic))
\* pattern.search(s, pos = i - 1): the leftmost match starting at or after i
SearchFrom(p, s, i, ic) == SearchIn(p, s, i, Len(s) + 1, ic)
\* re.search(p, s)
search(p, s, ic) == SearchFrom(p, s, 1, ic)
\* re.match(p, s)
match(p, s, ic) ==
    LET Found(r) == IF r.ok THEN [r EXCEPT !.b = 1] ELSE r
    IN  Found(MatchK(<<p>>, s, 1, NoGroups, ic))
\* m.group(0), m.group(n) of a group that took part in the match
group0(m, s) == SubSeq(s, m.b, m.e - 1)
group(m, s, n) == SubSeq(s, m.g[n][1], m.g[n][2] - 1)
HasGroup(m, n) == m.g[n][1] > 0

RECURSIVE FinditerFrom(_, _, _, _)
\* re.finditer(p, s): the successive non-overlapping matches, left to right
FinditerFrom(p, s, i, ic) ==
    IF i > Len(s) + 1 THEN <<>>
    ELSE LET Rest(m) ==
                 IF ~m.ok THEN <<>>
                 ELSE <<m>> \o FinditerFrom(p, s, IF m.e > m.b THEN m.e ELSE m.e + 1, ic)
         IN  Rest(SearchFrom(p, s, i, ic))
finditer(p, s, ic) == FinditerFrom(p, s, 1, ic)

RECURSIVE SubFrom(_, _, _, _, _)
\* re.sub(p, repl, s) for a replacement string without group references
SubFrom(p, repl, s, i, ic) ==
    IF i > Len(s) + 1 THEN ""
    ELSE LET Rest(m) ==
                 IF ~m.ok THEN SubSeq(s, i, Len(s))
                 ELSE SubSeq(s, i, m.b - 1) \o repl \o
                      (IF m.e > m.b THEN SubFrom(p, repl, s, m.e, ic)
                       ELSE IF m.e > Len(s) THEN ""
                       ELSE At(s, m.e) \o SubFrom(p, repl, s, m.e + 1, ic))
         IN  Rest(SearchFrom(p, s, i, ic))
sub(p, repl, s, ic) == SubFrom(p, repl, s, 1, ic)

\* a replacement template: literal text and group references, as in r'\1\2'
Text(str) == <<"text", str>>
Backref(n) == <<"group", n>>
RECURSIVE Expand(_, _, _, _)
Expand(template, k, m, s) ==
    IF k > Len(template) THEN ""
    ELSE (IF template[k][1] = "text" THEN template[k][2] ELSE group(m, s, template[k][2]))
         \o Expand(template, k + 1, m, s)
RECURSIVE SubgFrom(_, _, _, _, _)
\* re.sub(p, template, s)
SubgFrom(p, template, s, i, ic) ==
    IF i > Len(s) + 1 THEN ""
    ELSE LET Rest(m) ==
                 IF ~m.ok THEN SubSeq(s, i, Len(s))
                 ELSE SubSeq(s, i, m.b - 1) \o Expand(template, 1, m, s) \o
                      (IF m.e > m.b THEN SubgFrom(p, template, s, m.e, ic)
                       ELSE IF m.e > Len(s) THEN ""
                       ELSE At(s, m.e) \o SubgFrom(p, template, s, m.e + 1, ic))
         IN  Rest(SearchFrom(p, s, i, ic))
subg(p, template, s, ic) == SubgFrom(p, template, s, 1, ic)

\* s[start:end] with Python's clamping of the bounds (0-based, end excluded)
Slice(s, start, end) ==
    LET a == IF start > Len(s) THEN Len(s) ELSE start
        b == IF end > Len(s) THEN Len(s) ELSE end
    IN  IF a >= b THEN "" ELSE SubSeq(s, a + 1, b)

\* the characters of the alphabet (ASCII without the backquote) in code-point
\* order, and the order of str
AsciiChars == "\t\n !\"#$%&'()*+,-./0123456789:;<=>?@ABCDEFGHIJKLMNOPQRSTUVWXYZ[\\]^_abcdefghijklmnopqrstuvwxyz{|}~"
Ord(c) == IndexIn(c, AsciiChars)
RECURSIVE StrLess(_, _)
\* a < b for two str
StrLess(a, b) ==
    IF b = "" THEN FALSE
    ELSE IF a = "" THEN TRUE
    ELSE IF At(a, 1) # At(b, 1) THEN Ord(At(a, 1)) < Ord(At(b, 1))
    ELSE StrLess(SubSeq(a, 2, Len(a)), SubSeq(b, 2, Len(b)))
RECURSIVE sorted(_)
\* sorted(list(set)) of a set of str
sorted(set) ==
    IF set = {} THEN <<>>
    ELSE LET least == CHOOSE x \in set : \A y \in set \ {x} : StrLess(x, y)
         IN  <<least>> \o sorted(set \ {least})

(***************************************************************************)
(* Values.  Optional[T] is <<>> for None and <<v>> for a value v.  A field *)
(* of a dict is <<>> (key absent, or None) or a value tagged with its      *)
(* type: <<"str", text>>, <<"int", n>>, <<"list", items>>,                 *)
(* <<"datetime", <<year, month, day, second of the day>>>>.                *)
(***************************************************************************)
None == <<>>
Some(v) == <<v>>
StrV(text) == <<"str", text>>
IntV(n) == <<"int", n>>
ListV(items) == <<"list", items>>
DatetimeV(dt) == <<"datetime", dt>>
IsA(v, type) == v # None /\ v[1] = type
\* dict.get(key, default) of a text field
Get(d, key, default) == IF d[key] = None THEN default ELSE d[key][2]
AltLits(ws) == Alt([i \in 1..Len(ws) |-> Lit(ws[i])])
Range(f) == {f[i] : i \in DOMAIN f}
\* list(set): the elements of a set in an order the interpreter picks (string
\* hashing is randomised per process)
ListsOf(set) == {f \in [1..Cardinality(set) -> set] : Range(f) = set}
RECURSIVE ToInt(_)
\* int(text) of a run of decimal digits
ToInt(ds) ==
    IF ds = "" THEN 0
    ELSE 10 * ToInt(SubSeq(ds, 1, Len(ds) - 1)) + (IndexIn(At(ds, Len(ds)), DigitChars) - 1)
\* re.findall(p, s) for a pattern with one group: the text of group 1 of every match
findall1(p, s, ic) ==
    LET Groups(ms) == [i \in 1..Len(ms) |-> group(ms[i], s, 1)]
    IN  Groups(finditer(p, s, ic))

(***************************************************************************)
(* JobParser (app/parsers/job_parser.py)                                   *)
(***************************************************************************)
skill_patterns == <<
    Cat(<<WB, Grp(1, Alt(<<Lit("python"), Lit("java"), Lit("javascript"), Lit("php"), Lit("sql"),
                          Lit("html"), Lit("css"), Lit("react"), Lit("angular"), Lit("vue"),
                          Cat(<<Lit("node"), Opt(Lit(".")), Lit("js")>>)>>)), WB>>),
    Cat(<<WB, Grp(1, AltLits(<<"microsoft office", "excel", "word", "powerpoint", "outlook">>)), WB>>),
    Cat(<<WB, Grp(1, AltLits(<<"communication", "leadership", "teamwork", "problem solving",
                               "analytical">>)), WB>>),
    Cat(<<WB, Grp(1, AltLits(<<"project management", "time management", "critical thinking">>)), WB>>),
    Cat(<<WB, Grp(1, AltLits(<<"computer", "typing", "internet", "email", "database">>)), WB>>) >>

education_patterns == <<
    Cat(<<WB, Grp(1, Alt(<<Lit("bachelor"), Cat(<<Lit("master"), Opt(Lit("s"))>>), Lit("phd"),
                          Lit("doctorate"), Lit("diploma"), Lit("certificate")>>)), WB>>),
    Cat(<<WB, Grp(1, AltLits(<<"bsc", "msc", "ba", "ma", "bba", "mba", "llb", "mbbs">>)), WB>>),
    Cat(<<WB, Grp(1, AltLits(<<"engineering", "medicine", "arts", "science", "commerce", "law">>)), WB>>),
    Cat(<<WB, Grp(1, AltLits(<<"university", "college", "institute", "board">>)), WB>>) >>

\* self.location_mapping, in insertion order
location_mapping == <<
    <<"dhaka", "Dhaka">>, <<"chittagong", "Chittagong">>, <<"sylhet", "Sylhet">>,
    <<"rajshahi", "Rajshahi">>, <<"khulna", "Khulna">>, <<"barisal", "Barisal">>,
    <<"rangpur", "Rangpur">>, <<"mymensingh", "Mymensingh">> >>

\* r'<[^>]+>' and r'\s+'
TagP == Cat(<<Lit("<"), Plus(NotIn({">"})), Lit(">")>>)
WsP == Plus(S)

_clean_text(text) ==
    IF text = "" THEN ""
    ELSE strip(sub(WsP, " ", sub(TagP, "", text, FALSE), FALSE))

\* the first entry of an (alias, name) table whose alias occurs in text; 0 when none does
FirstHit(table, text) ==
    LET hits == {i \in 1..Len(table) : Contains(text, table[i][1])}
    IN  IF hits = {} THEN 0 ELSE CHOOSE i \in hits : \A j \in hits : i <= j

_normalize_location(location) ==
    LET Mapped(loc, hit) == IF hit > 0 THEN location_mapping[hit][2] ELSE title(loc)
        Cleaned(loc) == Mapped(loc, FirstHit(location_mapping, loc))
    IN  Cleaned(_clean_text(lower(location)))

\* md5(text).hexdigest()[:16].  The digest is kept symbolic: it stands for its
\* input, so equal inputs give equal digests and different inputs different ones
\* (no two inputs of the model collide on the first 64 bits of MD5).
Md5Hex16(text) == <<"md5", text>>

\* a fingerprint that also reads the description
job_id_with_description(raw_data) ==
    Md5Hex16(Get(raw_data, "title", "") \o Get(raw_data, "department", "")
             \o Get(raw_data, "location", "") \o Get(raw_data, "description", ""))

_generate_job_id(raw_data) ==
    Md5Hex16(Get(raw_data, "title", "") \o Get(raw_data, "department", "")
             \o Get(raw_data, "location", ""))

\* \d+(?:,\d+)*
CommaNumP == Cat(<<Plus(D), Star(Cat(<<Lit(","), Plus(D)>>))>>)
salary_patterns == <<
    Cat(<<Grp(1, CommaNumP), Star(S), Opt(Alt(<<Lit("to"), Lit("-")>>)), Star(S),
          Opt(Grp(2, CommaNumP)), Star(S), Lit("taka")>>),
    Cat(<<Grp(1, CommaNumP), Star(S), Opt(Alt(<<Lit("to"), Lit("-")>>)), Star(S),
          Opt(Grp(2, CommaNumP))>>),
    Cat(<<Lit("grade"), Star(S), Grp(1, Plus(D))>>) >>

\* the first pattern of a list that matches text; 0 when none does
FirstMatching(patterns, text, ic) ==
    LET First(hits) == IF hits = {} THEN 0 ELSE CHOOSE i \in hits : \A j \in hits : i <= j
    IN  First({i \in 1..Len(patterns) : search(patterns[i], text, ic).ok})

_extract_salary(salary_text) ==
    IF salary_text = "" THEN None
    ELSE LET Pick(text, k) ==
                 IF k > 0 THEN Some(group0(search(salary_patterns[k], text, FALSE), text))
                 ELSE Some(_clean_text(salary_text))
             Try(text) == Pick(text, FirstMatching(salary_patterns, text, FALSE))
         IN  Try(lower(salary_text))

_extract_vacancies(vacancy_text) ==
    IF vacancy_text = "" THEN None
    ELSE LET m == search(Grp(1, Plus(D)), vacancy_text, FALSE)
         IN  IF m.ok THEN Some(ToInt(group(m, vacancy_text, 1))) ELSE None

age_patterns == <<
    Cat(<<Grp(1, Plus(D)), Star(S), Alt(<<Lit("to"), Lit("-")>>), Star(S), Grp(2, Plus(D))>>),
    Cat(<<Lit("maximum"), Star(S), Grp(1, Plus(D))>>),
    Cat(<<Lit("minimum"), Star(S), Grp(1, Plus(D))>>),
    Cat(<<Grp(1, Plus(D)), Star(S), Lit("year"), Opt(Lit("s"))>>) >>
\* the number of groups of each age pattern: m.group(n) of a group the pattern
\* does not have raises IndexError
age_pattern_groups == <<2, 1, 1, 1>>

\* [raised |-> exception name or "", min, max]
_extract_age_range(age_text) ==
    IF age_text = "" THEN [raised |-> "", min |-> None, max |-> None]
    ELSE LET Read(text, k, m, g1) ==
                 IF Contains(text, "to") \/ Contains(age_text, "-")
                 THEN IF age_pattern_groups[k] < 2
                      THEN [raised |-> "IndexError", min |-> None, max |-> None]
                      ELSE [raised |-> "", min |-> Some(g1),
                            max |-> Some(ToInt(group(m, text, 2)))]
                 ELSE IF Contains(text, "maximum")
                      THEN [raised |-> "", min |-> None, max |-> Some(g1)]
                 ELSE IF Contains(text, "minimum")
                      THEN [raised |-> "", min |-> Some(g1), max |-> None]
                 ELSE [raised |-> "", min |-> Some(g1), max |-> Some(g1)]
             Matched(text, k, m) == Read(text, k, m, ToInt(group(m, text, 1)))
             Try(text, k) ==
                 IF k = 0 THEN [raised |-> "", min |-> None, max |-> None]
                 ELSE Matched(text, k, search(age_patterns[k], text, FALSE))
             Lowered(text) == Try(text, FirstMatching(age_patterns, text, FALSE))
         IN  Lowered(lower(age_text))

skill_keywords == <<"communication", "leadership", "teamwork", "analytical", "computer", "typing",
                    "internet", "microsoft office", "problem solving", "time management",
                    "project management">>

\* the set built by _extract_skills; the list returned is one of ListsOf(it)
SkillSet(text) ==
    IF text = "" THEN {}
    ELSE LET text_lower == lower(text)
         IN  UNION {Range(findall1(skill_patterns[i], text_lower, TRUE)) : i \in 1..Len(skill_patterns)}
             \cup {skill_keywords[i] : i \in {j \in 1..Len(skill_keywords) :
                                               Contains(text_lower, skill_keywords[j])}}
_extract_skills(text) == ListsOf(SkillSet(text))

\* set(education_info); the string returned joins one of ListsOf(it)
EducationSet(text) ==
    IF text = "" THEN {}
    ELSE LET text_lower == lower(text)
         IN  UNION {Range(findall1(education_patterns[i], text_lower, TRUE)) :
                    i \in 1..Len(education_patterns)}
_extract_education(text) ==
    LET Joined(education_info) ==
            IF education_info = {} THEN {None}
            ELSE {Some(Join(l, 1, ", ")) : l \in ListsOf(education_info)}
    IN  Joined(EducationSet(text))

\* datetime.strptime: the directive patterns of _strptime.TimeRE; group 1 is
\* the year, group 2 the month (number or name), group 3 the day
NonZero == In(Digits \ {"0"})
YearP == Grp(1, Cat(<<D, D, D, D>>))
MonthP == Grp(2, Alt(<<Cat(<<Lit("1"), In({"0", "1", "2"})>>), Cat(<<Lit("0"), NonZero>>), NonZero>>))
DayP == Grp(3, Alt(<<Cat(<<Lit("3"), In({"0", "1"})>>), Cat(<<In({"1", "2"}), D>>),
                     Cat(<<Lit("0"), NonZero>>), NonZero, Cat(<<Lit(" "), NonZero>>)>>))
month_names == <<"january", "february", "march", "april", "may", "june", "july", "august",
                 "september", "october", "november", "december">>
\* %B: the month names, longest first
MonthNameP == Grp(2, AltLits(<<"september", "february", "november", "december", "january", "october",
                               "august", "march", "april", "june", "july", "may">>))
\* date_formats of _parse_date, each compiled as strptime compiles it
date_formats == <<
    Cat(<<YearP, Lit("-"), MonthP, Lit("-"), DayP>>),
    Cat(<<DayP, Lit("-"), MonthP, Lit("-"), YearP>>),
    Cat(<<DayP, Lit("/"), MonthP, Lit("/"), YearP>>),
    Cat(<<YearP, Lit("/"), MonthP, Lit("/"), DayP>>),
    Cat(<<MonthNameP, Plus(S), DayP, Lit(","), Plus(S), YearP>>),
    Cat(<<DayP, Plus(S), MonthNameP, Plus(S), YearP>>) >>

IsLeap(y) == y % 4 = 0 /\ (y % 100 # 0 \/ y % 400 = 0)
DaysInMonth(y, m) ==
    IF m = 2 THEN (IF IsLeap(y) THEN 29 ELSE 28)
    ELSE IF m \in {4, 6, 9, 11} THEN 30 ELSE 31
MonthNumber(text) ==
    IF text \in Range(month_names) THEN CHOOSE i \in 1..12 : month_names[i] = text
    ELSE ToInt(text)

\* datetime.strptime(data, fmt): None stands for ValueError; a datetime is
\* <<year, month, day, second of the day>>
strptime(data, fmt) ==
    LET Build(m) ==
            IF ~m.ok \/ m.e # Len(data) + 1 THEN None
            ELSE LET y == ToInt(group(m, data, 1))
                     mo == MonthNumber(lower(group(m, data, 2)))
                     d == ToInt(strip(group(m, data, 3)))
                 IN  IF y >= 1 /\ d <= DaysInMonth(y, mo) THEN Some(<<y, mo, d, 0>>) ELSE None
    IN  Build(match(fmt, data, TRUE))

_parse_date(date_str) ==
    IF date_str = "" THEN None
    ELSE LET First(text, ok) ==
                 IF ok = {} THEN None
                 ELSE strptime(text, date_formats[CHOOSE i \in ok : \A j \in ok : i <= j])
             Try(text) == First(text, {i \in 1..Len(date_formats) :
                                         strptime(text, date_formats[i]) # None})
         IN  Try(strip(date_str))

\* The except clause of parse_job (lines 112-114) calls logger.error, and
\* job_parser.py defines no name logger: the handler itself raises NameError,
\* with the exception it caught as context.
ParseError(caught) == [kind |-> "raise", exc |-> "NameError", context |-> caught]

\* parse_job(raw_data): the outcomes it can have (the order of skills and of
\* the education terms is the interpreter's)
parse_job(raw_data) ==
    LET Build(job_id, job_title, department, location, age, description) ==
            IF job_title = "" \/ department = "" \/ location = "" THEN {ParseError("ValueError")}
            ELSE IF age.raised # "" THEN {ParseError(age.raised)}
            ELSE {[kind |-> "ParsedJob",
                   job_id |-> job_id,
                   title |-> job_title,
                   department |-> department,
                   location |-> location,
                   grade |-> _clean_text(Get(raw_data, "grade", "")),
                   salary |-> _extract_salary(Get(raw_data, "salary", "")),
                   vacancies |-> _extract_vacancies(Get(raw_data, "vacancies", "")),
                   education |-> education,
                   experience |-> _clean_text(Get(raw_data, "experience", "")),
                   age_min |-> age.min,
                   age_max |-> age.max,
                   skills |-> skills,
                   description |-> _clean_text(description),
                   posting_date |-> _parse_date(Get(raw_data, "posting_date", "")),
                   deadline_date |-> _parse_date(Get(raw_data, "deadline_date", "")),
                   application_link |-> raw_data["application_link"],
                   source_url |-> raw_data["source_url"],
                   source_site |-> raw_data["source_site"]] :
                  skills \in _extract_skills(description \o " " \o Get(raw_data, "requirements", "")),
                  education \in _extract_education(description \o " " \o Get(raw_data, "education", ""))}
    IN  Build(_generate_job_id(raw_data),
              _clean_text(Get(raw_data, "title", "")),
              _clean_text(Get(raw_data, "department", "")),
              _normalize_location(Get(raw_data, "location", "")),
              _extract_age_range(Get(raw_data, "age", "")),
              Get(raw_data, "description", ""))

(***************************************************************************)
(* DataCleaner (app/parsers/data_cleaner.py)                               *)
(***************************************************************************)
\* self.department_mappings, self.title_mappings, in insertion order
department_mappings == <<
    <<"ict division", "Information and Communication Technology Division">>,
    <<"rhd", "Roads and Highways Department">>,
    <<"lged", "Local Government Engineering Department">>,
    <<"bsti", "Bangladesh Standards and Testing Institution">>,
    <<"btrc", "Bangladesh Telecommunication Regulatory Commission">>,
    <<"doe", "Department of Environment">>,
    <<"dae", "Department of Agricultural Extension">>,
    <<"dghs", "Directorate General of Health Services">>,
    <<"bcs", "Bangladesh Civil Service">>,
    <<"ntrca", "Non-Government Teachers Registration and Certification Authority">> >>
title_mappings == <<
    <<"asst", "Assistant">>, <<"sr", "Senior">>, <<"jr", "Junior">>, <<"mgr", "Manager">>,
    <<"exec", "Executive">>, <<"tech", "Technical">>, <<"admin", "Administrative">> >>

\* unicodedata.normalize('NFKD', text): no ASCII character has a decomposition
unicodedata_normalize(text) == text

\* r'[^\w\s\u0980-\u09FF.,()-]': the Bengali block is outside the ASCII alphabet
SpecialP == NotIn(WordChars \cup Spaces \cup {".", ",", "(", ")", "-"})

clean_text(text) ==
    IF text = "" THEN ""
    ELSE strip(sub(SpecialP, "",
                   sub(WsP, " ", sub(TagP, "", unicodedata_normalize(text), FALSE), FALSE), FALSE))

RECURSIVE ExpandAbbreviations(_, _, _)
\* for abbrev, full in table[k:]: text = re.sub(rf'\b{abbrev}\b', full, text, flags=re.IGNORECASE)
ExpandAbbreviations(table, k, text) ==
    IF k > Len(table) \/ text = "" THEN text
    ELSE ExpandAbbreviations(table, k + 1,
                             sub(Cat(<<WB, Lit(table[k][1]), WB>>), table[k][2], text, TRUE))

redundant_patterns == <<
    Cat(<<WB, Alt(<<Cat(<<Lit("post"), Plus(S), Lit("of")>>), Cat(<<Lit("position"), Plus(S), Lit("of")>>),
                    Cat(<<Lit("job"), Plus(S), Lit("of")>>)>>), WB>>),
    Cat(<<WB, AltLits(<<"recruitment", "hiring", "vacancy">>), WB>>),
    Cat(<<WB, AltLits(<<"advertisement", "circular">>), WB>>) >>

RECURSIVE RemoveAll(_, _, _, _)
\* for pattern in patterns[k:]: text = re.sub(pattern, '', text, flags)
RemoveAll(patterns, k, text, ic) ==
    IF k > Len(patterns) \/ text = "" THEN text
    ELSE RemoveAll(patterns, k + 1, sub(patterns[k], "", text, ic), ic)

title_stop_words == {"of", "and", "in", "for", "at"}
department_stop_words == {"of", "and", "the", "in", "for"}

clean_title(job_title) ==
    IF job_title = "" THEN ""
    ELSE LET Proper(words) ==
                 Join([i \in 1..Len(words) |->
                         IF lower(words[i]) \notin title_stop_words THEN capitalize(words[i])
                         ELSE lower(words[i])], 1, " ")
             Expanded(text) == ExpandAbbreviations(title_mappings, 1, text)
             Stripped(text) == strip(sub(WsP, " ", RemoveAll(redundant_patterns, 1, text, TRUE), FALSE))
         IN  Proper(split(Stripped(Expanded(clean_text(job_title)))))

department_prefixes == <<
    Cat(<<WB, Alt(<<Cat(<<Lit("ministry"), Plus(S), Lit("of"), Plus(S), Lit("th"), Opt(Lit("e"))>>),
                    Cat(<<Lit("department"), Plus(S), Lit("of"), Plus(S), Lit("th"), Opt(Lit("e"))>>)>>),
          WB>>),
    Cat(<<WB, Alt(<<Cat(<<Lit("government"), Plus(S), Lit("of"), Plus(S), Lit("bangladesh")>>),
                    Cat(<<Lit("bangladesh"), Plus(S), Lit("government")>>)>>), WB>>) >>

normalize_department(department) ==
    IF department = "" THEN ""
    ELSE LET Proper(words) ==
                 strip(Join([i \in 1..Len(words) |->
                               IF words[i] \in department_stop_words THEN lower(words[i])
                               ELSE capitalize(words[i])], 1, " "))
             Mapped(dept, hit) ==
                 IF hit > 0 THEN department_mappings[hit][2]
                 ELSE Proper(split(RemoveAll(department_prefixes, 1, dept, FALSE)))
             Cleaned(dept) == Mapped(dept, FirstHit(department_mappings, dept))
         IN  Cleaned(clean_text(lower(department)))

\* location_mappings of normalize_location, in insertion order
location_mappings == <<
    <<"chittagong", "Chittagong">>, <<"chattogram", "Chittagong">>, <<"dhaka", "Dhaka">>,
    <<"sylhet", "Sylhet">>, <<"rajshahi", "Rajshahi">>, <<"khulna", "Khulna">>,
    <<"barisal", "Barisal">>, <<"barishal", "Barisal">>, <<"rangpur", "Rangpur">>,
    <<"mymensingh", "Mymensingh">> >>
location_indicators == <<
    Cat(<<WB, AltLits(<<"district", "division", "upazila", "thana", "area">>), WB>>),
    Cat(<<WB, Lit("bangladesh"), WB>>) >>

normalize_location(location) ==
    IF location = "" THEN ""
    ELSE LET Proper(words) == strip(Join([i \in 1..Len(words) |-> capitalize(words[i])], 1, " "))
             Mapped(loc, hit) ==
                 IF hit > 0 THEN location_mappings[hit][2]
                 ELSE Proper(split(RemoveAll(location_indicators, 1, loc, FALSE)))
             Cleaned(loc) == Mapped(loc, FirstHit(location_mappings, loc))
         IN  Cleaned(clean_text(lower(location)))

salary_clean_patterns == <<
    Cat(<<Grp(1, Plus(D)), Star(S), Opt(Alt(<<Lit("to"), Lit("-")>>)), Star(S), Opt(Grp(2, Plus(D))),
          Star(S), Opt(Alt(<<Lit("bdt"), Cat(<<Lit("per"), Plus(S), Lit("month")>>)>>))>>),
    Cat(<<Lit("grade"), Star(S), Grp(1, Plus(D))>>),
    Cat(<<Lit("pay"), Plus(S), Lit("scale"), Plus(In(Spaces \cup {":"})), Grp(1, CommaNumP), Star(S),
          Lit("-"), Star(S), Grp(2, CommaNumP)>>) >>
\* the range pattern read as if it had one group
salary_clean_groups_single == <<1, 1, 2>>
\* len(match.groups()) of each pattern
salary_clean_groups == <<2, 1, 2>>

clean_salary(salary) ==
    IF salary = "" THEN None
    ELSE LET NoSymbols(text) == sub(In({"$"}), "", text, FALSE)
             Coded(text) == sub(Cat(<<WB, Alt(<<Lit("taka"), Lit("tk"), Lit("bdt"),
                                                Cat(<<Lit("rupee"), Opt(Lit("s"))>>)>>), WB>>),
                                "BDT", text, TRUE)
             NoCommas(text) == subg(Cat(<<Grp(1, Plus(D)), Lit(","), Grp(2, Plus(D))>>),
                                    <<Backref(1), Backref(2)>>, text, FALSE)
             Format(text, k, m) ==
                 IF salary_clean_groups[k] >= 2 /\ HasGroup(m, 2) /\ group(m, text, 2) # ""
                 THEN Some(group(m, text, 1) \o "-" \o group(m, text, 2) \o " BDT")
                 ELSE Some(group(m, text, 1) \o " BDT")
             Pick(text, k) ==
                 IF k > 0 THEN Format(text, k, search(salary_clean_patterns[k], text, FALSE))
                 ELSE IF strip(text) # "" THEN Some(title(strip(text))) ELSE None
             Try(text) == Pick(text, FirstMatching(salary_clean_patterns, text, FALSE))
         IN  Try(NoCommas(Coded(NoSymbols(clean_text(lower(salary))))))

skill_mappings == <<
    <<"ms office", "Microsoft Office">>, <<"ms word", "Microsoft Word">>,
    <<"ms excel", "Microsoft Excel">>, <<"powerpoint", "Microsoft PowerPoint">>,
    <<"js", "JavaScript">>, <<"html5", "HTML">>, <<"css3", "CSS">>, <<"mysql", "MySQL">>,
    <<"postgresql", "PostgreSQL">> >>
generic_skills == {"a", "an", "the", "is", "are"}

\* the name a skill is kept under, None when it is skipped
CleanSkill(skill) ==
    IF skill = "" THEN None
    ELSE LET Named(s, keys) ==
                 IF Len(s) <= 2 \/ s \in generic_skills THEN None
                 ELSE IF keys # {} THEN Some(skill_mappings[CHOOSE i \in keys : TRUE][2])
                 ELSE Some(title(s))
             Cleaned(s) == Named(s, {i \in 1..Len(skill_mappings) : skill_mappings[i][1] = s})
         IN  Cleaned(clean_text(lower(skill)))

clean_skills(skills) ==
    sorted({c[1] : c \in {CleanSkill(skills[i]) : i \in 1..Len(skills)} \ {None}})

\* date.toordinal(): the days from 0001-01-01, which is day 1
DaysBeforeYear(y) == (y - 1) * 365 + (y - 1) \div 4 - (y - 1) \div 100 + (y - 1) \div 400
RECURSIVE DaysBeforeMonth(_, _)
DaysBeforeMonth(y, m) == IF m <= 1 THEN 0 ELSE DaysBeforeMonth(y, m - 1) + DaysInMonth(y, m - 1)
toordinal(dt) == DaysBeforeYear(dt[1]) + DaysBeforeMonth(dt[1], dt[2]) + dt[3]
\* a <= b for a datetime a shifted by a number of days and a datetime b
ShiftedLE(a, days, b) ==
    \/ toordinal(a) + days < toordinal(b)
    \/ toordinal(a) + days = toordinal(b) /\ a[4] <= b[4]
ShiftedGE(a, days, b) ==
    \/ toordinal(a) + days > toordinal(b)
    \/ toordinal(a) + days = toordinal(b) /\ a[4] >= b[4]

\* validate_date(date_obj) when datetime.now() is current_date:
\* [raised |-> exception name or "", value |-> the result]
validate_date(date_obj, current_date) ==
    IF date_obj = None \/ (IsA(date_obj, "str") /\ date_obj[2] = "") THEN [raised |-> "", value |-> None]
    ELSE IF ~IsA(date_obj, "datetime") THEN [raised |-> "TypeError", value |-> None]
    ELSE IF /\ ShiftedLE(current_date, -365, date_obj[2])
            /\ ShiftedGE(current_date, 730, date_obj[2])
         THEN [raised |-> "", value |-> date_obj]
         ELSE [raised |-> "", value |-> None]

\* r'\b(\w+)\b\s+\1\b'
RepeatedWordP == Cat(<<WB, Grp(1, Plus(W)), WB, Plus(S), Ref(1), WB>>)
common_words == <<"job", "position", "role", "responsibility", "requirement">>

RECURSIVE CutSpans(_, _, _)
\* for match in matches[k-1:]: text = text[:start] + text[end:], with the spans
\* the matches had in the text before the first cut
CutSpans(text, matches, k) ==
    IF k > Len(matches) \/ text = "" THEN text
    ELSE CutSpans(Slice(text, 0, matches[k].b - 1) \o Slice(text, matches[k].e - 1, Len(text)),
                  matches, k + 1)

RECURSIVE ThinCommonWords(_, _)
\* the loop over common_words[k:]
ThinCommonWords(text, k) ==
    IF k > Len(common_words) \/ text = "" THEN text
    ELSE LET Thin(matches) ==
                 ThinCommonWords(IF Len(matches) > 3 THEN CutSpans(text, matches, 3) ELSE text, k + 1)
         IN  Thin(finditer(Cat(<<WB, Lit(common_words[k]), WB>>), text, TRUE))

clean_description(description) ==
    IF description = "" THEN ""
    ELSE strip(ThinCommonWords(subg(RepeatedWordP, <<Backref(1)>>, clean_text(description), FALSE), 1))

ColonOrSpace == In(Spaces \cup {":"})
\* self.grade_patterns
GradeP == Cat(<<Lit("grade"), Star(ColonOrSpace), Grp(1, Plus(D))>>)
ClassP == Cat(<<Lit("class"), Star(ColonOrSpace), Grp(1, Plus(In({"i", "v", "x", "l"})))>>)
PayScaleP == Cat(<<Lit("pay"), Plus(S), Lit("scale"), Star(ColonOrSpace), Grp(1, Plus(D))>>)

clean_grade(grade) ==
    IF grade = "" THEN None
    ELSE LET Final(g) == IF strip(g) # "" THEN Some(title(strip(g))) ELSE None
             Class(g, m) ==
                 Final(subg(PayScaleP, <<Text("Pay Scale "), Backref(1)>>,
                            IF m.ok THEN "Class " \o upper(group(m, g, 1)) ELSE g, TRUE))
             Graded(g) == Class(g, search(ClassP, g, TRUE))
         IN  Graded(subg(GradeP, <<Text("Grade "), Backref(1)>>, clean_text(lower(grade)), TRUE))

\* clean_numeric_field(value, field_type) for None, a str or an int
clean_numeric_field(value, field_type) ==
    IF value = None THEN None
    ELSE LET InRange(n) ==
                 IF field_type = "vacancies" THEN (IF 1 <= n /\ n <= 10000 THEN Some(n) ELSE None)
                 ELSE IF field_type = "age" THEN (IF 15 <= n /\ n <= 70 THEN Some(n) ELSE None)
                 ELSE (IF n > 0 THEN Some(n) ELSE None)
             FromText(m) == IF ~m.ok THEN None ELSE InRange(ToInt(group0(m, value[2])))
         IN  IF IsA(value, "str") THEN FromText(search(Plus(D), value[2], FALSE))
             ELSE InRange(value[2])

\* r'^https?://[^\s/$.?#].[^\s]*$'
UrlP == Cat(<<Bol, Lit("http"), Opt(Lit("s")), Lit("://"), NotIn(Spaces \cup {"/", "$", ".", "?", "#"}),
              NotIn({"\n"}), Star(NotIn(Spaces)), Eol>>)

clean_url(url) ==
    IF url = "" THEN None
    ELSE LET Checked(full) == IF match(UrlP, full, FALSE).ok THEN Some(full) ELSE None
             WithScheme(u) ==
                 Checked(IF startswith(u, "http://") \/ startswith(u, "https://") THEN u
                         ELSE "https://" \o u)
         IN  WithScheme(strip(url))

\* bool(value), and value and str(value).strip(), of a field value
Truthy(value) ==
    /\ value # None
    /\ IsA(value, "str") => value[2] # ""
    /\ IsA(value, "int") => value[2] # 0
    /\ IsA(value, "list") => value[2] # <<>>
Populated(value) == Truthy(value) /\ (IsA(value, "str") => strip(value[2]) # "")
\* an Optional[str] or Optional[int] result as a field value
OptStr(o) == IF o = None THEN None ELSE StrV(o[1])
OptInt(o) == IF o = None THEN None ELSE IntV(o[1])

required_fields == <<"title", "department", "location">>
important_fields == <<"description", "application_link", "deadline_date">>
additional_fields == <<"salary", "vacancies", "skills", "education">>

\* validate_job_data(job_data) when datetime.now() is current_date:
\* [kind |-> "ok", job |-> the cleaned dict], [kind |-> "empty"] for {} or
\* [kind |-> "raise", exc |-> the exception]
validate_job_data(job_data, current_date) ==
    LET Clean(posting, deadline) ==
            IF posting.raised # "" THEN [kind |-> "raise", exc |-> posting.raised]
            ELSE IF deadline.raised # "" THEN [kind |-> "raise", exc |-> deadline.raised]
            ELSE [kind |-> "ok",
                  job |-> [title |-> StrV(clean_title(Get(job_data, "title", ""))),
                           department |-> StrV(normalize_department(Get(job_data, "department", ""))),
                           location |-> StrV(normalize_location(Get(job_data, "location", ""))),
                           grade |-> OptStr(clean_grade(Get(job_data, "grade", ""))),
                           salary |-> OptStr(clean_salary(Get(job_data, "salary", ""))),
                           description |-> StrV(clean_description(Get(job_data, "description", ""))),
                           vacancies |-> OptInt(clean_numeric_field(job_data["vacancies"], "vacancies")),
                           age_min |-> OptInt(clean_numeric_field(job_data["age_min"], "age")),
                           age_max |-> OptInt(clean_numeric_field(job_data["age_max"], "age")),
                           skills |-> ListV(clean_skills(Get(job_data, "skills", <<>>))),
                           posting_date |-> posting.value,
                           deadline_date |-> deadline.value,
                           education |-> StrV(clean_text(Get(job_data, "education", ""))),
                           experience |-> StrV(clean_text(Get(job_data, "experience", ""))),
                           application_link |-> OptStr(clean_url(Get(job_data, "application_link", ""))),
                           source_url |-> OptStr(clean_url(Get(job_data, "source_url", "")))]]
    IN  IF \E i \in 1..Len(required_fields) : ~Populated(job_data[required_fields[i]])
        THEN [kind |-> "empty"]
        ELSE Clean(validate_date(job_data["posting_date"], current_date),
                   validate_date(job_data["deadline_date"], current_date))

\* a key that also reads the description
DedupKeyWithDescription(job) ==
    LET Joined(kept) == Join([i \in 1..Len(kept) |-> strip(lower(kept[i]))], 1, "|")
    IN  Joined(SelectSeq(<<clean_title(Get(job, "title", "")),
                           normalize_department(Get(job, "department", "")),
                           normalize_location(Get(job, "location", "")),
                           Get(job, "description", "")>>,
                         LAMBDA part : part # ""))

\* the key deduplicate_jobs builds for a job (lines 378-383)
DedupKey(job) ==
    LET Joined(kept) == Join([i \in 1..Len(kept) |-> strip(lower(kept[i]))], 1, "|")
    IN  Joined(SelectSeq(<<clean_title(Get(job, "title", "")),
                           normalize_department(Get(job, "department", "")),
                           normalize_location(Get(job, "location", ""))>>,
                         LAMBDA part : part # ""))

\* how many of the named fields of a dict are populated
CountPopulated(job_data, fields) ==
    Cardinality({i \in 1..Len(fields) : fields[i] \in DOMAIN job_data /\ Populated(job_data[fields[i]])})

\* a scoring with 30 points, not 40, for the required fields
quality_score_required_30(job_data) ==
    LET Capped(score) == IF score < 100 * 48 THEN score ELSE 100 * 48
        Bonus(filled, total) == IF total > 0 THEN (480 * filled) \div total ELSE 0
    IN  Capped(480 * CountPopulated(job_data, required_fields)
               + 480 * CountPopulated(job_data, important_fields)
               + 240 * CountPopulated(job_data, additional_fields)
               + Bonus(Cardinality({f \in DOMAIN job_data : Populated(job_data[f])}),
                       Cardinality(DOMAIN job_data)))

\* calculate_data_quality_score(job_data) times ScoreScale: 40/3 points are 640
\* units, 30/3 are 480, 20/4 are 240, and the bonus 10 * filled / total is
\* 480 * filled / total, a whole number for the 16 fields of a cleaned dict
ScoreScale == 48
calculate_data_quality_score(job_data) ==
    LET Capped(score) == IF score < 100 * ScoreScale THEN score ELSE 100 * ScoreScale
        Bonus(filled, total) == IF total > 0 THEN (480 * filled) \div total ELSE 0
    IN  Capped(640 * CountPopulated(job_data, required_fields)
               + 480 * CountPopulated(job_data, important_fields)
               + 240 * CountPopulated(job_data, additional_fields)
               + Bonus(Cardinality({f \in DOMAIN job_data : Populated(job_data[f])}),
                       Cardinality(DOMAIN job_data)))

(***************************************************************************)
(* FieldExtractor (app/parsers/field_extractor.py)                         *)
(***************************************************************************)
\* list(a set of str) in a process whose string hashing has the seed seed:
\* the order is a function of the seed and of the elements, and differs
\* between seeds
RECURSIVE HashOrderOf(_, _)
HashOrderOf(items, seed) ==
    IF items = <<>> THEN <<>>
    ELSE LET k == (seed % Len(items)) + 1
         IN  <<items[k]>> \o HashOrderOf(SubSeq(items, 1, k - 1) \o SubSeq(items, k + 1, Len(items)),
                                         seed \div Len(items))
HashOrder(set, seed) == HashOrderOf(sorted(set), seed)

\* a\s+b
Words(a, b) == Cat(<<Lit(a), Plus(S), Lit(b)>>)
\* \b(...)\b
Whole(alternatives) == Cat(<<WB, Grp(1, Alt(alternatives)), WB>>)
\* \d{1,2}, \d{1,3}, \d{4}
D12 == Cat(<<D, Opt(D)>>)
D13 == Cat(<<D, Opt(Cat(<<D, Opt(D)>>))>>)
D4 == Cat(<<D, D, D, D>>)
\* [:\s]+ and (?:to|-)?
ColonsOrSpaces == Plus(In({":"} \cup Spaces))
ToOrDash == Opt(Alt(<<Lit("to"), Lit("-")>>))
\* years?
Years == Cat(<<Lit("year"), Opt(Lit("s"))>>)

\* self.skill_patterns, category after category
extractor_skill_patterns == <<
    Whole(<<Lit("python"), Lit("java"), Lit("javascript"), Lit("php"), Lit("c++"), Lit("c#"),
            Lit("sql"), Lit("html"), Lit("css"), Lit("react"), Lit("angular"), Lit("vue"),
            Cat(<<Lit("node"), Opt(Lit(".")), Lit("js")>>)>>),
    Whole(<<Lit("django"), Lit("flask"), Lit("spring"), Lit("laravel"), Lit("bootstrap"),
            Lit("jquery")>>),
    Whole(<<Lit("mysql"), Lit("postgresql"), Lit("mongodb"), Lit("oracle"), Lit("sqlite")>>),
    Whole(<<Words("microsoft", "office"), Words("ms", "office"), Lit("excel"), Lit("word"),
            Lit("powerpoint"), Lit("outlook")>>),
    Whole(<<Words("google", "workspace"), Words("google", "docs"), Lit("sheets"), Lit("slides")>>),
    Whole(<<Lit("pdf"), Lit("spreadsheet"), Lit("presentation")>>),
    Whole(<<Lit("autocad"), Lit("solidworks"), Lit("matlab"), Lit("photoshop"), Lit("illustrator")>>),
    Whole(<<Lit("linux"), Lit("windows"), Lit("unix"), Lit("ubuntu"), Lit("centos")>>),
    Whole(<<Lit("git"), Lit("github"), Lit("gitlab"), Lit("svn"), Words("version", "control")>>),
    Whole(<<Lit("communication"), Lit("leadership"), Lit("teamwork"), Words("problem", "solving"),
            Lit("analytical")>>),
    Whole(<<Words("project", "management"), Words("time", "management"),
            Words("critical", "thinking")>>),
    Whole(<<Lit("presentation"), Lit("negotiation"), Lit("interpersonal"), Lit("organizational")>>) >>

extractor_skill_keywords == <<"typing", "internet", "email", "database", "networking",
                              "troubleshooting", "documentation", "reporting", "analysis",
                              "research", "planning", "coordination", "supervision">>

\* extract_skills(text) in a process with the hash seed seed
extract_skills(text, seed) ==
    IF text = "" THEN <<>>
    ELSE LET Cleaned(skills) == {title(lower(strip(skill))) :
                                    skill \in {s \in skills : Len(strip(s)) > 2}}
             Found(text_lower) ==
                 UNION {Range(findall1(extractor_skill_patterns[i], text_lower, TRUE)) :
                        i \in 1..Len(extractor_skill_patterns)}
                 \cup {extractor_skill_keywords[i] :
                       i \in {j \in 1..Len(extractor_skill_keywords) :
                                Contains(text_lower, extractor_skill_keywords[j])}}
         IN  HashOrder(Cleaned(Found(lower(text))), seed)

extractor_education_patterns == <<
    Whole(<<Lit("bachelor"), Cat(<<Lit("master"), Opt(Lit("s"))>>), Lit("phd"), Lit("doctorate"),
            Lit("diploma"), Lit("certificate")>>),
    Whole(<<Cat(<<Lit("b"), Opt(Lit(".")), Lit("sc")>>), Cat(<<Lit("m"), Opt(Lit(".")), Lit("sc")>>),
            Lit("ba"), Lit("ma"), Lit("bba"), Lit("mba"), Lit("llb"), Lit("mbbs"), Lit("phd")>>),
    Whole(<<Lit("engineering"), Lit("medicine"), Lit("arts"), Lit("science"), Lit("commerce"),
            Lit("law"), Lit("business")>>),
    Whole(<<Words("computer", "science"), Words("civil", "engineering"),
            Words("electrical", "engineering")>>),
    Whole(<<Words("mechanical", "engineering"), Words("software", "engineering")>>),
    Whole(<<Lit("university"), Lit("college"), Lit("institute"), Lit("polytechnic")>>) >>

\* extract_education(text) in a process with the hash seed seed
extract_education(text, seed) ==
    IF text = "" THEN None
    ELSE LET Joined(unique_education) ==
                 IF unique_education = {} THEN None
                 ELSE Some(Join(HashOrder(unique_education, seed), 1, ", "))
             Found(text_lower) ==
                 UNION {Range(findall1(extractor_education_patterns[i], text_lower, TRUE)) :
                        i \in 1..Len(extractor_education_patterns)}
         IN  Joined({title(edu) : edu \in Found(lower(text))})

\* r'fresh\s+graduate|fresher|entry\s+level|no\s+experience'
FreshP == Alt(<<Words("fresh", "graduate"), Lit("fresher"), Words("entry", "level"),
                Words("no", "experience")>>)
experience_patterns == <<
    Cat(<<Grp(1, Plus(D)), Star(In({"+", "-"} \cup Spaces)), ToOrDash, Star(S),
          Opt(Grp(2, Plus(D))), Star(S), Years, Plus(S), Opt(Cat(<<Lit("of"), Plus(S)>>)),
          Lit("experience")>>),
    Cat(<<Lit("minimum"), Plus(S), Grp(1, Plus(D)), Plus(S), Years, Plus(S), Lit("experience")>>),
    Cat(<<Lit("at"), Plus(S), Lit("least"), Plus(S), Grp(1, Plus(D)), Plus(S), Years, Plus(S),
          Lit("experience")>>),
    Cat(<<Grp(1, Plus(D)), Star(S), Lit("+"), Star(S), Years, Plus(S), Lit("experience")>>),
    FreshP >>
\* every pattern read as if it had one group
experience_pattern_groups_single == <<1, 1, 1, 1, 0>>
\* len(match.groups()) for each experience pattern
experience_pattern_groups == <<2, 1, 1, 1, 0>>

\* the loop of extract_experience over self.experience_patterns: the first
\* pattern that matches decides; groups[0] of a pattern without groups raises
experience_from_patterns(text_lower) ==
    LET Read(k, m) ==
            IF experience_pattern_groups[k] >= 2 /\ HasGroup(m, 2)
            THEN [raised |-> "",
                  value |-> Some(group(m, text_lower, 1) \o "-" \o group(m, text_lower, 2) \o " years")]
            ELSE IF experience_pattern_groups[k] = 0
            THEN [raised |-> "IndexError", value |-> None]
            ELSE [raised |-> "", value |-> Some(group(m, text_lower, 1) \o "+ years")]
        Try(k) == IF k = 0 THEN [raised |-> "", value |-> None]
                  ELSE Read(k, search(experience_patterns[k], text_lower, FALSE))
    IN  Try(FirstMatching(experience_patterns, text_lower, FALSE))

\* the loop alone, without the check for a fresh graduate before it
extract_experience_unchecked(text) ==
    IF text = "" THEN [raised |-> "", value |-> None]
    ELSE experience_from_patterns(lower(text))

\* extract_experience(text): [raised |-> exception name or "", value]
extract_experience(text) ==
    IF text = "" THEN [raised |-> "", value |-> None]
    ELSE IF search(FreshP, lower(text), FALSE).ok
         THEN [raised |-> "", value |-> Some("Fresh Graduate")]
         ELSE experience_from_patterns(lower(text))

\* \d{1,3}(?:,\d{3})* and \d+(?:,\d+)*
Thousands == Cat(<<D13, Star(Cat(<<Lit(","), D, D, D>>))>>)
extractor_salary_patterns == <<
    Cat(<<Grp(1, Thousands), Star(S), ToOrDash, Star(S), Opt(Grp(2, Thousands)), Star(S),
          Alt(<<Lit("taka"), Lit("tk"), Lit("bdt")>>)>>),
    Cat(<<Lit("grade"), Star(S), Grp(1, Plus(D))>>),
    Cat(<<Words("pay", "scale"), ColonsOrSpaces, Grp(1, CommaNumP), Star(S), Lit("-"), Star(S),
          Grp(2, CommaNumP)>>),
    Cat(<<Lit("salary"), ColonsOrSpaces, Grp(1, CommaNumP), Star(S), ToOrDash, Star(S),
          Opt(Grp(2, CommaNumP))>>) >>

extract_salary_info(text) ==
    IF text = "" THEN None
    ELSE LET Found(text_lower, k) ==
                 IF k = 0 THEN None
                 ELSE Some(strip(group0(search(extractor_salary_patterns[k], text_lower, FALSE),
                                        text_lower)))
             Lowered(text_lower) ==
                 Found(text_lower, FirstMatching(extractor_salary_patterns, text_lower, FALSE))
         IN  Lowered(lower(text))

extractor_age_patterns == <<
    Cat(<<Words("age", "limit"), ColonsOrSpaces, Grp(1, Plus(D)), Star(S), ToOrDash, Star(S),
          Opt(Grp(2, Plus(D))), Star(S), Years>>),
    Cat(<<Grp(1, Plus(D)), Star(S), ToOrDash, Star(S), Opt(Grp(2, Plus(D))), Star(S), Years,
          Plus(S), Opt(Cat(<<Lit("of"), Plus(S)>>)), Lit("age")>>),
    Cat(<<Words("maximum", "age"), ColonsOrSpaces, Grp(1, Plus(D)), Star(S), Years>>),
    Cat(<<Words("minimum", "age"), ColonsOrSpaces, Grp(1, Plus(D)), Star(S), Years>>) >>
\* len(match.groups()) for each age pattern
extractor_age_pattern_groups == <<2, 2, 1, 1>>

\* extract_age_range(text): [raised |-> exception name or "", min, max]
extract_age_range(text) ==
    IF text = "" THEN [raised |-> "", min |-> None, max |-> None]
    ELSE LET Read(text_lower, k, m) ==
                 IF extractor_age_pattern_groups[k] >= 2 /\ HasGroup(m, 2)
                 THEN [raised |-> "", min |-> Some(ToInt(group(m, text_lower, 1))),
                       max |-> Some(ToInt(group(m, text_lower, 2)))]
                 ELSE IF Contains(group0(m, text_lower), "maximum")
                 THEN [raised |-> "", min |-> None, max |-> Some(ToInt(group(m, text_lower, 1)))]
                 ELSE IF Contains(group0(m, text_lower), "minimum")
                 THEN [raised |-> "", min |-> Some(ToInt(group(m, text_lower, 1))), max |-> None]
                 ELSE [raised |-> "", min |-> Some(ToInt(group(m, text_lower, 1))),
                       max |-> Some(ToInt(group(m, text_lower, 1)))]
             Try(text_lower, k) ==
                 IF k = 0 THEN [raised |-> "", min |-> None, max |-> None]
                 ELSE Read(text_lower, k, search(extractor_age_patterns[k], text_lower, FALSE))
             Lowered(text_lower) ==
                 Try(text_lower, FirstMatching(extractor_age_patterns, text_lower, FALSE))
         IN  Lowered(lower(text))

\* the patterns of extract_vacancies; the Bengali word of the last one is
\* outside the ASCII alphabet of the texts
vacancy_patterns == <<
    Cat(<<Grp(1, Plus(D)), Star(S),
          Alt(<<Cat(<<Lit("post"), Opt(Lit("s"))>>), Cat(<<Lit("position"), Opt(Lit("s"))>>),
                Lit("vacancies"), Cat(<<Lit("opening"), Opt(Lit("s"))>>)>>)>>),
    Cat(<<Lit("vacancie"), Opt(Lit("s")), ColonsOrSpaces, Grp(1, Plus(D))>>),
    Cat(<<Lit("post"), Opt(Lit("s")), ColonsOrSpaces, Grp(1, Plus(D))>>),
    Cat(<<Grp(1, Plus(D)), Star(S), Cat(<<Lit("person"), Opt(Lit("s"))>>)>>) >>

extract_vacancies(text) ==
    IF text = "" THEN None
    ELSE LET Reasonable(numbers) ==
                 LET ok == {i \in 1..Len(numbers) :
                              1 <= ToInt(numbers[i]) /\ ToInt(numbers[i]) <= 1000}
                 IN  IF ok = {} THEN None
                     ELSE Some(ToInt(numbers[CHOOSE i \in ok : \A j \in ok : i <= j]))
             Found(text_lower, k) ==
                 IF k > 0
                 THEN Some(ToInt(group(search(vacancy_patterns[k], text_lower, FALSE), text_lower, 1)))
                 ELSE IF Contains(text_lower, "vacancy") \/ Contains(text_lower, "post")
                 THEN Reasonable(findall1(Cat(<<WB, Grp(1, Plus(D)), WB>>), text_lower, FALSE))
                 ELSE None
             Lowered(text_lower) ==
                 Found(text_lower, FirstMatching(vacancy_patterns, text_lower, FALSE))
         IN  Lowered(lower(text))

grade_scale_patterns == <<
    Cat(<<Lit("grade"), ColonsOrSpaces, Grp(1, Plus(D))>>),
    Cat(<<Words("pay", "scale"), ColonsOrSpaces, Grp(1, Plus(D))>>),
    Cat(<<Lit("class"), ColonsOrSpaces, Grp(1, Plus(In({"i", "v", "x", "l"})))>>),
    Cat(<<Lit("category"), ColonsOrSpaces, Grp(1, In({"a", "b", "c"}))>>) >>

extract_grade_scale(text) ==
    IF text = "" THEN None
    ELSE LET Found(text_lower, k) ==
                 IF k = 0 THEN None
                 ELSE Some(title(group0(search(grade_scale_patterns[k], text_lower, FALSE),
                                        text_lower)))
             Lowered(text_lower) ==
                 Found(text_lower, FirstMatching(grade_scale_patterns, text_lower, FALSE))
         IN  Lowered(lower(text))

\* a lookup that numbers the months from 0
month_number_from_zero(month_name) ==
    IF \E i \in 1..Len(month_names) : month_names[i] = lower(month_name)
    THEN (CHOOSE i \in 1..Len(month_names) : month_names[i] = lower(month_name)) - 1
    ELSE 1

\* months.get(month_name.lower(), 1)
_month_name_to_number(month_name) ==
    IF \E i \in 1..Len(month_names) : month_names[i] = lower(month_name)
    THEN CHOOSE i \in 1..Len(month_names) : month_names[i] = lower(month_name)
    ELSE 1

\* datetime(year, month, day): None stands for the ValueError of a date that
\* does not exist
datetime(year, month, day) ==
    IF /\ 1 <= year /\ year <= 9999
       /\ 1 <= month /\ month <= 12
       /\ 1 <= day /\ day <= DaysInMonth(year, month)
    THEN Some(<<year, month, day, 0>>)
    ELSE None

DateSep == In({"-", "/"})
MonthNames == AltLits(month_names)
date_patterns == <<
    Cat(<<Grp(1, D12), DateSep, Grp(2, D12), DateSep, Grp(3, D4)>>),
    Cat(<<Grp(1, D4), DateSep, Grp(2, D12), DateSep, Grp(3, D12)>>),
    Cat(<<Grp(1, D12), Plus(S), Grp(2, MonthNames), Plus(S), Grp(3, D4)>>),
    Cat(<<Grp(1, MonthNames), Plus(S), Grp(2, D12), Opt(Lit(",")), Plus(S), Grp(3, D4)>>) >>

RECURSIVE DeadlineFrom(_, _)
\* the loop of extract_application_deadline from date_patterns[k] on: a match
\* that gives no date is passed over
DeadlineFrom(text_lower, k) ==
    IF k > Len(date_patterns) THEN None
    ELSE LET G(m, n) == group(m, text_lower, n)
             Build(m) ==
                 IF ~m.ok THEN None
                 ELSE IF k = 1 THEN datetime(ToInt(G(m, 3)), ToInt(G(m, 2)), ToInt(G(m, 1)))
                 ELSE IF k = 2 THEN datetime(ToInt(G(m, 1)), ToInt(G(m, 2)), ToInt(G(m, 3)))
                 ELSE IF k = 3
                 THEN datetime(ToInt(G(m, 3)), _month_name_to_number(G(m, 2)), ToInt(G(m, 1)))
                 ELSE datetime(ToInt(G(m, 3)), _month_name_to_number(G(m, 1)), ToInt(G(m, 2)))
             Later(date) == IF date # None THEN date ELSE DeadlineFrom(text_lower, k + 1)
         IN  Later(Build(search(date_patterns[k], text_lower, FALSE)))

extract_application_deadline(text) ==
    IF text = "" THEN None ELSE DeadlineFrom(lower(text), 1)

\* extract_comprehensive_info(text) in a process with the hash seed seed: the
\* dict, or the exception of the first extractor that raises
extract_comprehensive_info(text, seed) ==
    IF text = "" THEN [kind |-> "dict", fields |-> <<>>]
    ELSE LET Info(experience, age) ==
                 IF experience.raised # "" THEN [kind |-> "raise", exc |-> experience.raised]
                 ELSE IF age.raised # "" THEN [kind |-> "raise", exc |-> age.raised]
                 ELSE [kind |-> "dict",
                       fields |-> [skills |-> extract_skills(text, seed),
                                   education |-> extract_education(text, seed),
                                   experience |-> experience.value,
                                   salary |-> extract_salary_info(text),
                                   age_min |-> age.min,
                                   age_max |-> age.max,
                                   vacancies |-> extract_vacancies(text),
                                   grade |-> extract_grade_scale(text),
                                   deadline |-> extract_application_deadline(text)]]
         IN  Info(extract_experience(text), extract_age_range(text))

(***************************************************************************)
(* The records of the model                                                *)
(***************************************************************************)
\* The dicts the scrapers yield; a field that is None is absent from the dict.
RawRecords ==
    LET NoRaw == [title |-> None, department |-> None, location |-> None, salary |-> None,
                  vacancies |-> None, age |-> None, description |-> None,
                  requirements |-> None, education |-> None, grade |-> None,
                  experience |-> None, posting_date |-> None, deadline_date |-> None,
                  application_link |-> None, source_url |-> None, source_site |-> None]
        Posting == [title |-> StrV("Software Engineer"), department |-> StrV("ICT Division"),
                    location |-> StrV("Dhaka")] @@ NoRaw
    IN  { Posting,
          \* required fields absent, empty, or empty once cleaned
          [title |-> StrV("Test Job")] @@ NoRaw,
          [title |-> StrV("")] @@ Posting,
          [title |-> StrV(" ")] @@ Posting,
          [department |-> StrV("<b></b>")] @@ Posting,
          [location |-> None] @@ Posting,
          \* the same posting in another case, spacing or markup
          [location |-> StrV("dhaka")] @@ Posting,
          [title |-> StrV(" Software  Engineer")] @@ Posting,
          [department |-> StrV("<b>ICT Division</b>")] @@ Posting,
          \* the same posting with other descriptions, dates, salary and links
          [description |-> StrV("Must know python and sql"),
           education |-> StrV("bachelor or masters degree")] @@ Posting,
          [salary |-> StrV("22,000 - 53,870 Taka"), grade |-> StrV("Grade 9")] @@ Posting,
          [posting_date |-> StrV("2025-01-15"),
           deadline_date |-> StrV("15 February 2025")] @@ Posting,
          [application_link |-> StrV("https://bpsc.gov.bd/apply"),
           source_site |-> StrV("bpsc")] @@ Posting,
          \* optional fields whose text cannot be coerced
          [age |-> StrV("up to 30 years")] @@ Posting,
          [age |-> StrV("18 years to 30 years")] @@ Posting,
          [age |-> StrV("thirty")] @@ Posting,
          [salary |-> StrV("negotiable"), vacancies |-> StrV("several")] @@ Posting,
          [posting_date |-> StrV("soon"), deadline_date |-> StrV("31/02/2025")] @@ Posting,
          \* numbers inside and outside vacancies 1..10000 and age 15..70
          [vacancies |-> StrV("5 posts"), age |-> StrV("18-30")] @@ Posting,
          [vacancies |-> StrV("0 posts")] @@ Posting,
          [vacancies |-> StrV("50000")] @@ Posting,
          [age |-> StrV("5 to 99")] @@ Posting,
          [age |-> StrV("maximum 35")] @@ Posting,
          \* an age range written from the upper end
          [age |-> StrV("35-18")] @@ Posting,
          \* a posting date years before the record is processed
          [posting_date |-> StrV("2019-06-30")] @@ Posting }

\* datetime.now() while a batch is cleaned: 2025-03-01 09:00:00
Now == <<2025, 3, 1, 32400>>

\* The dicts handed to the DataCleaner; a field that is None is absent.
JobDicts ==
    LET NoJob == [title |-> None, department |-> None, location |-> None, grade |-> None,
                  salary |-> None, description |-> None, vacancies |-> None,
                  age_min |-> None, age_max |-> None, skills |-> None,
                  posting_date |-> None, deadline_date |-> None, education |-> None,
                  experience |-> None, application_link |-> None, source_url |-> None]
        BareJob == [title |-> StrV("Software Engineer"), department |-> StrV("ICT Division"),
                    location |-> StrV("Dhaka")] @@ NoJob
        FullJob == [description |-> StrV("Develop and maintain software"),
                    application_link |-> StrV("https://jobs.gov.bd/1"),
                    deadline_date |-> DatetimeV(<<2025, 4, 1, 0>>),
                    salary |-> StrV("22000 - 53870 taka"), vacancies |-> IntV(5),
                    skills |-> ListV(<<"python">>), education |-> StrV("BSc in CSE")] @@ BareJob
        OtherJob == [title |-> StrV("Asst. Director"), department |-> StrV("RHD"),
                     location |-> StrV("Chittagong"),
                     description |-> StrV("Plan road works")] @@ NoJob
    IN  { FullJob, BareJob, OtherJob,
          \* the same posting in another case and spacing, of high and of middling quality
          [title |-> StrV(" software  ENGINEER"), location |-> StrV("dhaka")] @@ FullJob,
          [title |-> StrV("SOFTWARE ENGINEER"), description |-> StrV("Build systems"),
           application_link |-> StrV("jobs.gov.bd/2")] @@ BareJob,
          \* a required field blank or absent
          [title |-> StrV(" ")] @@ FullJob,
          [location |-> None] @@ FullJob,
          \* a deadline that is text, not a datetime
          [deadline_date |-> StrV("2025-04-01")] @@ FullJob,
          \* required fields that cleaning empties
          [title |-> StrV("Recruitment")] @@ FullJob,
          [title |-> StrV("Recruitment"), department |-> StrV("Ministry of the"),
           location |-> StrV("District")] @@ NoJob,
          \* one word as the title of a record and as the department of another
          [title |-> StrV("Accountant"), location |-> StrV("Sylhet")] @@ NoJob,
          [department |-> StrV("Accountant"), location |-> StrV("Sylhet")] @@ NoJob,
          \* optional values out of range
          [vacancies |-> StrV("0 posts"), age_min |-> IntV(5),
           deadline_date |-> DatetimeV(<<2020, 1, 1, 0>>),
           application_link |-> StrV("not a url")] @@ OtherJob,
          \* ages in range, the larger one first
          [age_min |-> IntV(40), age_max |-> IntV(20)] @@ BareJob,
          \* dates exactly 365 days before and 730 days after Now
          [posting_date |-> DatetimeV(<<2024, 3, 1, 32400>>),
           deadline_date |-> DatetimeV(<<2027, 3, 1, 32400>>)] @@ BareJob }

\* min_quality_score: no filter, the default (line 431), a stricter one
default_min_quality_score == 50
Thresholds == {0, default_min_quality_score, 60}

\* What the pure functions give on the records of the model, computed once.
ParseOutcomes == [raw \in RawRecords |-> parse_job(raw)] @@ <<>>
Validated == [job \in JobDicts |-> validate_job_data(job, Now)] @@ <<>>
CleanedJobs == {v.job : v \in {w \in {Validated[job] : job \in JobDicts} : w.kind = "ok"}}
DedupKeys == [job \in JobDicts \cup CleanedJobs |-> DedupKey(job)] @@ <<>>
QualityScores == [job \in CleanedJobs |-> calculate_data_quality_score(job)] @@ <<>>

(***************************************************************************)
(* DataCleaner: batches                                                    *)
(***************************************************************************)
RECURSIVE DedupFrom(_, _, _)
\* the loop of deduplicate_jobs from jobs[k] on: the jobs appended to unique_jobs
DedupFrom(jobs_, k, seen) ==
    IF k > Len(jobs_) THEN <<>>
    ELSE LET key == DedupKeys[jobs_[k]]
         IN  IF key \notin seen /\ key # ""
             THEN <<jobs_[k]>> \o DedupFrom(jobs_, k + 1, seen \cup {key})
             ELSE DedupFrom(jobs_, k + 1, seen)

RECURSIVE KeepLastFrom(_, _)
\* a loop that lets a later job replace the earlier one with its key
KeepLastFrom(jobs_, k) ==
    IF k > Len(jobs_) THEN <<>>
    ELSE LET key == DedupKeys[jobs_[k]]
         IN  IF key # "" /\ \A j \in (k + 1)..Len(jobs_) : DedupKeys[jobs_[j]] # key
             THEN <<jobs_[k]>> \o KeepLastFrom(jobs_, k + 1)
             ELSE KeepLastFrom(jobs_, k + 1)
deduplicate_keeping_last(jobs_) == KeepLastFrom(jobs_, 1)

deduplicate_jobs(jobs_) == DedupFrom(jobs_, 1, {})

RECURSIVE CleanLoopNoThreshold(_, _, _)
\* the loop without the comparison with min_quality_score
CleanLoopNoThreshold(jobs_, k, threshold) ==
    IF k > Len(jobs_) THEN <<>>
    ELSE LET cleaned_job == Validated[jobs_[k]]
         IN  IF cleaned_job.kind = "ok"
             THEN <<cleaned_job.job>> \o CleanLoopNoThreshold(jobs_, k + 1, threshold)
             ELSE CleanLoopNoThreshold(jobs_, k + 1, threshold)

RECURSIVE CleanLoop(_, _, _)
\* the first loop of clean_batch (lines 439-453) from jobs[k] on: cleaned_jobs.
\* A job whose validation raises is left out by the except clause, one whose
\* validation gives {} by "if cleaned_job", one of low score by the comparison.
CleanLoop(jobs_, k, threshold) ==
    IF k > Len(jobs_) THEN <<>>
    ELSE LET cleaned_job == Validated[jobs_[k]]
         IN  IF /\ cleaned_job.kind = "ok"
                /\ QualityScores[cleaned_job.job] >= ScoreScale * threshold
             THEN <<cleaned_job.job>> \o CleanLoop(jobs_, k + 1, threshold)
             ELSE CleanLoop(jobs_, k + 1, threshold)

\* clean_batch with the loop body outside any try: the exception of a job ends the call
clean_batch_unguarded(jobs_, threshold) ==
    IF \E k \in 1..Len(jobs_) : Validated[jobs_[k]].kind = "raise"
    THEN [kind |-> "raise",
          exc |-> Validated[jobs_[CHOOSE k \in 1..Len(jobs_) :
                                      /\ Validated[jobs_[k]].kind = "raise"
                                      /\ \A j \in 1..(k - 1) : Validated[jobs_[j]].kind # "raise"]].exc]
    ELSE [kind |-> "return", value |-> deduplicate_jobs(CleanLoop(jobs_, 1, threshold))]

\* clean_batch(jobs, min_quality_score): every exception of the loop body is
\* caught (line 451) and deduplicate_jobs raises none on cleaned dicts, so the
\* call returns
clean_batch(jobs_, threshold) ==
    [kind |-> "return", value |-> deduplicate_jobs(CleanLoop(jobs_, 1, threshold))]

(***************************************************************************)
(* The pipeline: raw records are fetched and parsed one at a time          *)
(***************************************************************************)
MaxJobs == 2
MaxBatch == 2
\* the seeds of string hashing (PYTHONHASHSEED) a process may start with
MaxSeed == 1
HashSeeds == 0..MaxSeed

Init ==
    /\ raw_jobs = <<>>
    /\ parsed = <<>>
    /\ jobs = <<>>
    /\ min_quality_score = default_min_quality_score
    /\ batch_out = None
    /\ unique_out = None
    /\ input_text = ""
    /\ cleaned = <<>>
    /\ hash_seed \in HashSeeds
    /\ extracted = <<>>
    /\ in_flight = {}
    /\ retry = [pc |-> "idle", url |-> "", retries |-> 0, attempt |-> 0,
                outcomes |-> <<>>, slept |-> <<>>, result |-> None]

\* a scraper yields one more raw record
Fetch(raw) ==
    /\ Len(raw_jobs) < MaxJobs
    /\ raw_jobs' = Append(raw_jobs, raw)
    /\ UNCHANGED <<parsed, jobs, min_quality_score, batch_out, unique_out>>
    /\ UNCHANGED <<textVars, extractVars, threadVars, retryVars>>

\* parse_job on the next raw record: what it returned or raised is recorded
ParseJob ==
    /\ Len(parsed) < Len(raw_jobs)
    /\ \E outcome \in ParseOutcomes[raw_jobs[Len(parsed) + 1]] :
           parsed' = Append(parsed, outcome)
    /\ UNCHANGED <<raw_jobs, jobs, min_quality_score, batch_out, unique_out>>
    /\ UNCHANGED <<textVars, extractVars, threadVars, retryVars>>

Next ==
    \/ \E raw \in RawRecords : Fetch(raw)
    \/ ParseJob

Spec == Init /\ [][Next]_vars

(***************************************************************************)
(* Batch cleaning: a batch is assembled, then cleaned and deduplicated     *)
(***************************************************************************)
\* the caller puts one more job dict in the batch
AddJob(job) ==
    /\ batch_out = None /\ unique_out = None
    /\ Len(jobs) < MaxBatch
    /\ jobs' = Append(jobs, job)
    /\ UNCHANGED <<raw_jobs, parsed, min_quality_score, batch_out, unique_out>>
    /\ UNCHANGED <<textVars, extractVars, threadVars, retryVars>>

\* clean_batch(jobs, threshold)
CleanBatch(threshold) ==
    /\ batch_out = None
    /\ min_quality_score' = threshold
    /\ batch_out' = Some(clean_batch(jobs, threshold))
    /\ UNCHANGED <<raw_jobs, parsed, jobs, unique_out>>
    /\ UNCHANGED <<textVars, extractVars, threadVars, retryVars>>

\* deduplicate_jobs(jobs)
DeduplicateJobs ==
    /\ unique_out = None
    /\ unique_out' = Some(deduplicate_jobs(jobs))
    /\ UNCHANGED <<raw_jobs, parsed, jobs, min_quality_score, batch_out>>
    /\ UNCHANGED <<textVars, extractVars, threadVars, retryVars>>

NextBatch ==
    \/ \E job \in JobDicts : AddJob(job)
    \/ \E threshold \in Thresholds : CleanBatch(threshold)
    \/ DeduplicateJobs

SpecBatch == Init /\ [][NextBatch]_vars

(***************************************************************************)
(* Text cleaning: a text is written character by character, then handed to *)
(* clean_text, and the result is handed to clean_text again                *)
(***************************************************************************)
\* a letter, a space, a character clean_text removes, and the tag brackets
TextAlphabet == {"a", " ", "@", "<", ">"}
MaxLen == 5
MaxCalls == 2

\* the text grows by one character
Type(c) ==
    /\ cleaned = <<>>
    /\ Len(input_text) < MaxLen
    /\ input_text' = input_text \o c
    /\ UNCHANGED <<raw_jobs, parsed, jobs, min_quality_score, batch_out, unique_out, cleaned, extractVars, threadVars, retryVars>>

\* clean_text on the text, then on what the call before returned
CleanText ==
    /\ Len(cleaned) < MaxCalls
    /\ cleaned' = Append(cleaned, clean_text(IF cleaned = <<>> THEN input_text
                                             ELSE cleaned[Len(cleaned)]))
    /\ UNCHANGED <<raw_jobs, parsed, jobs, min_quality_score, batch_out, unique_out, input_text, extractVars, threadVars, retryVars>>

NextText ==
    \/ \E c \in TextAlphabet : Type(c)
    \/ CleanText

SpecText == Init /\ [][NextText]_vars

(***************************************************************************)
(* Concurrent parsing: threads call parse_job on one shared JobParser, in  *)
(* any order, each on one of the raw records                               *)
(***************************************************************************)
MaxThreads == 2

\* the records handed to the threads: the posting as it is, with a
\* description and an education, with an age that parses and with an age on
\* which parse_job raises
SharedRecords == {raw \in RawRecords :
                    /\ Get(raw, "title", "") = "Software Engineer"
                    /\ Get(raw, "department", "") = "ICT Division" /\ Get(raw, "location", "") = "Dhaka"
                    /\ Get(raw, "age", "") \in {"", "maximum 35", "up to 30 years"}
                    /\ \A f \in {"salary", "vacancies", "grade", "posting_date", "deadline_date",
                                  "application_link"} : raw[f] = None}

\* the raw record after the raw_data.get(...) calls of parse_job: get reads
\* the dict and leaves it as it is
raw_data_after_pop(raw_data) == [raw_data EXCEPT !["age"] = None]
raw_data_after_get(raw_data) == raw_data

\* what parse_job returns or raises in a process with the hash seed seed
parse_job_with_seed(raw_data, seed) ==
    LET Ordered(outcome, education_info) ==
            outcome.kind = "ParsedJob" =>
                /\ outcome.skills = HashOrder(Range(outcome.skills), seed)
                /\ education_info # {} =>
                       outcome.education = Some(Join(HashOrder(education_info, seed), 1, ", "))
    IN  {outcome \in (IF raw_data \in RawRecords THEN ParseOutcomes[raw_data]
                      ELSE parse_job(raw_data)) :
            Ordered(outcome, EducationSet(Get(raw_data, "description", "") \o " "
                                          \o Get(raw_data, "education", "")))}

\* parse_job on the records of the model, computed once for each hash seed
SharedOutcomes ==
    [seed \in HashSeeds |-> [raw \in RawRecords |-> parse_job_with_seed(raw, seed)]] @@ <<>>

parse_job_in(raw_data, seed) ==
    IF raw_data \in RawRecords THEN SharedOutcomes[seed][raw_data]
    ELSE parse_job_with_seed(raw_data, seed)

\* a thread calls parse_job on the record raw_jobs[i]
BeginParse(i) ==
    /\ Cardinality(in_flight) < MaxThreads
    /\ \A call \in in_flight : call.index # i
    /\ \A k \in 1..Len(parsed) : parsed[k].index # i
    /\ in_flight' = in_flight \cup {[index |-> i, given |-> raw_jobs[i]]}
    /\ raw_jobs' = [raw_jobs EXCEPT ![i] = raw_data_after_get(raw_jobs[i])]
    /\ UNCHANGED <<parsed, jobs, min_quality_score, batch_out, unique_out>>
    /\ UNCHANGED <<textVars, extractVars, retryVars>>

\* the call returns or raises: what it was given and what came of it is recorded
EndParse(call) ==
    /\ call \in in_flight
    /\ in_flight' = in_flight \ {call}
    /\ \E outcome \in parse_job_in(raw_jobs[call.index], hash_seed) :
           parsed' = Append(parsed, [index |-> call.index, given |-> call.given,
                                     outcome |-> outcome])
    /\ UNCHANGED <<raw_jobs, jobs, min_quality_score, batch_out, unique_out>>
    /\ UNCHANGED <<textVars, extractVars, retryVars>>

NextConcurrent ==
    \/ \E raw \in SharedRecords : Fetch(raw)
    \/ \E i \in 1..Len(raw_jobs) : BeginParse(i)
    \/ \E call \in in_flight : EndParse(call)

SpecConcurrent == Init /\ [][NextConcurrent]_vars

(***************************************************************************)
(* Extraction: a job description is received and handed to                 *)
(* extract_comprehensive_info, possibly again after the process restarted  *)
(***************************************************************************)
\* phrases of job descriptions: experience, education, skills, dates that
\* exist and dates that do not, ages, vacancies, grade, salary, a bare number
ExtractPhrases == {"fresh graduate", "5 years experience", "3-5 years of experience",
                   "bachelor or masters", "python and sql", "25", "32-01-2025", "15-13-2025",
                   "31-02-2025", "2025-03-01", "age limit: 18 to 30 years",
                   "maximum age: 30 years", "10 posts", "grade: 9", "20,000 - 30,000 taka",
                   "apply soon"}
\* the phrases that also come before another phrase
LeadPhrases == {"fresh graduate", "31-02-2025", "bachelor or masters"}
\* the descriptions: a phrase, or a leading phrase and a phrase after it
ExtractTexts == ExtractPhrases \cup {a \o " " \o b : a \in LeadPhrases, b \in ExtractPhrases}

\* a description arrives
Receive(description) ==
    /\ input_text = "" /\ extracted = <<>> /\ cleaned = <<>>
    /\ input_text' = description
    /\ UNCHANGED <<raw_jobs, parsed, jobs, min_quality_score, batch_out, unique_out, cleaned,
                   extractVars, threadVars, retryVars>>

\* extract_comprehensive_info(text): what it returned or raised is recorded
Extract ==
    /\ cleaned = <<>>
    /\ Len(extracted) < MaxCalls
    /\ extracted' = Append(extracted, extract_comprehensive_info(input_text, hash_seed))
    /\ UNCHANGED <<raw_jobs, parsed, jobs, min_quality_score, batch_out, unique_out, textVars,
                   hash_seed, threadVars, retryVars>>

\* the process ends and a new one starts, with another hash seed
Restart ==
    /\ extracted # <<>>
    /\ Len(extracted) < MaxCalls
    /\ hash_seed' \in HashSeeds \ {hash_seed}
    /\ UNCHANGED <<raw_jobs, parsed, jobs, min_quality_score, batch_out, unique_out, textVars,
                   extracted, threadVars, retryVars>>

NextExtract ==
    \/ \E description \in ExtractTexts : Receive(description)
    \/ Extract
    \/ Restart

SpecExtract == Init /\ [][NextExtract]_vars

(***************************************************************************)
(* Date parsing: a date is written in one of its renderings and handed to  *)
(* _parse_date and to extract_application_deadline                         *)
(***************************************************************************)
\* the calendar dates written: a leap year and a common year, every month,
\* the first days, the last days and the days around two digits
DateYears == {2024, 2025}
DateDays == {1, 9, 10, 28, 29, 30, 31}
ValidDates == {date \in {<<y, mo, d, 0>> : y \in DateYears, mo \in 1..12, d \in DateDays} :
                 date[3] <= DaysInMonth(date[1], date[2])}

\* strftime: %d and %m (two digits), %Y (four digits), %B
TwoDigits(n) == At(DigitChars, (n \div 10) + 1) \o At(DigitChars, (n % 10) + 1)
FourDigits(n) == TwoDigits(n \div 100) \o TwoDigits(n % 100)
\* the renderings YYYY-MM-DD, DD-MM-YYYY, DD/MM/YYYY and 'MonthName DD, YYYY'
Rendering(date, shape) ==
    IF shape = 1 THEN FourDigits(date[1]) \o "-" \o TwoDigits(date[2]) \o "-" \o TwoDigits(date[3])
    ELSE IF shape = 2
    THEN TwoDigits(date[3]) \o "-" \o TwoDigits(date[2]) \o "-" \o FourDigits(date[1])
    ELSE IF shape = 3
    THEN TwoDigits(date[3]) \o "/" \o TwoDigits(date[2]) \o "/" \o FourDigits(date[1])
    ELSE capitalize(month_names[date[2]]) \o " " \o TwoDigits(date[3]) \o ", "
         \o FourDigits(date[1])
Shapes == 1..4
Rendered == [date \in ValidDates |-> [shape \in Shapes |-> Rendering(date, shape)]] @@ <<>>
\* texts with no date in them
NoDateTexts == {"apply soon", "no deadline", "25"}

\* a date text arrives
WriteDate(date_str) ==
    /\ input_text = "" /\ extracted = <<>> /\ cleaned = <<>>
    /\ input_text' = date_str
    /\ UNCHANGED <<raw_jobs, parsed, jobs, min_quality_score, batch_out, unique_out, cleaned,
                   extractVars, threadVars, retryVars>>

\* _parse_date(text) and extract_application_deadline(text)
ParseDate ==
    /\ extracted = <<>> /\ cleaned = <<>>
    /\ extracted' = <<[parser |-> _parse_date(input_text),
                       extractor |-> extract_application_deadline(input_text)]>>
    /\ UNCHANGED <<raw_jobs, parsed, jobs, min_quality_score, batch_out, unique_out, textVars,
                   hash_seed, threadVars, retryVars>>

NextDates ==
    \/ \E date \in ValidDates, shape \in Shapes : WriteDate(Rendered[date][shape])
    \/ \E date_str \in NoDateTexts : WriteDate(date_str)
    \/ ParseDate

SpecDates == Init /\ [][NextDates]_vars
(***************************************************************************)
(* Properties of parse_job, checked under Spec                             *)
(***************************************************************************)
\* the three fields parse_job requires, in the order of the identity key
RequiredOf(record) ==
    <<Get(record, "title", ""), Get(record, "department", ""),
      Get(record, "location", "")>>

\* the required fields of a parsed job
ParsedRequired(job) == <<job.title, job.department, job.location>>

\* the raw records whose title, department or location is empty once cleaned
MissingRequired ==
    {raw \in RawRecords :
        \/ _clean_text(Get(raw, "title", "")) = ""
        \/ _clean_text(Get(raw, "department", "")) = ""
        \/ _normalize_location(Get(raw, "location", "")) = ""}

\* C1: parse_job returns a ParsedJob exactly when the supplied title,
\* department and location are all non-empty, and raises a validation error
\* (ValueError) when any of them is empty or missing
C1_ParsedIffRequiredGiven ==
    \A i \in 1..Len(parsed) :
        IF \A f \in 1..3 : RequiredOf(raw_jobs[i])[f] # ""
        THEN parsed[i].kind = "ParsedJob"
        ELSE parsed[i].kind = "raise" /\ parsed[i].exc = "ValueError"

\* C2: two parsed jobs with the same normalized title, department and
\* location carry the same job_id
C2_SameNormalizedTripleSameId ==
    \A i, j \in 1..Len(parsed) :
        (/\ parsed[i].kind = "ParsedJob"
         /\ parsed[j].kind = "ParsedJob"
         /\ ParsedRequired(parsed[i]) = ParsedRequired(parsed[j]))
            => parsed[i].job_id = parsed[j].job_id

\* C3: job_id is a function of the supplied title, department and location
\* only: parsed records that agree on the three carry the same job_id,
\* whatever their other fields and however often they are parsed
C3_JobIdFromTripleOnly ==
    \A i, j \in 1..Len(parsed) :
        (/\ parsed[i].kind = "ParsedJob"
         /\ parsed[j].kind = "ParsedJob"
         /\ RequiredOf(raw_jobs[i]) = RequiredOf(raw_jobs[j]))
            => parsed[i].job_id = parsed[j].job_id

\* two different raw records with the same three fields have been parsed,
\* their descriptions differ and their job_ids agree
C3_Witness ==
    \E i, j \in 1..Len(parsed) :
        /\ raw_jobs[i] # raw_jobs[j]
        /\ RequiredOf(raw_jobs[i]) = RequiredOf(raw_jobs[j])
        /\ parsed[i].kind = "ParsedJob"
        /\ parsed[j].kind = "ParsedJob"
        /\ parsed[i].description # parsed[j].description
        /\ parsed[i].job_id = parsed[j].job_id

\* C9: parse_job fails only for a record whose title, department or location
\* is missing; a malformed salary, vacancy count, age or date never makes it
\* fail
C9_OnlyMissingRequiredFails ==
    \A i \in 1..Len(parsed) :
        parsed[i].kind = "raise" => raw_jobs[i] \in MissingRequired

\* C10: a parsed job's vacancies is null or in 1..10000, and its age_min and
\* age_max are each null or in 15..70
C10_NumbersInDomain ==
    \A i \in 1..Len(parsed) :
        parsed[i].kind = "ParsedJob" =>
            /\ parsed[i].vacancies = None \/ parsed[i].vacancies[1] \in 1..10000
            /\ parsed[i].age_min = None \/ parsed[i].age_min[1] \in 15..70
            /\ parsed[i].age_max = None \/ parsed[i].age_max[1] \in 15..70

(***************************************************************************)
(* Properties of deduplicate_jobs and clean_batch, checked under SpecBatch *)
(***************************************************************************)
\* a text with its letter case and its runs of whitespace folded
Fold(text) == strip(sub(WsP, " ", lower(text), FALSE))

\* title, department and location of each job dict, folded
Folded ==
    [job \in JobDicts |->
        [f \in 1..3 |-> Fold(Get(job, required_fields[f], ""))]] @@ <<>>

\* the positions of the batch whose job is the first one with its dedup key
FirstOfKey(i) ==
    \A j \in 1..(i - 1) : DedupKeys[jobs[j]] # DedupKeys[jobs[i]]

\* the jobs of the batch at the given positions, in that order
JobsAt(positions) == [k \in 1..Len(positions) |-> jobs[positions[k]]]

Positions == [i \in 1..Len(jobs) |-> i]

\* the cleaned form of the batch's i-th job, when validation accepts it
Accepted(i) == Validated[jobs[i]].kind = "ok"
CleanedAt(i) == Validated[jobs[i]].job

\* what clean_batch returned
Output == batch_out[1].value

C5_VariantsShareKey ==
    \A i, j \in 1..Len(jobs) :
        (i < j /\ Folded[jobs[i]] = Folded[jobs[j]]) =>
            /\ DedupKeys[jobs[i]] = DedupKeys[jobs[j]]
            /\ (Accepted(i) /\ Accepted(j))
                   => DedupKeys[CleanedAt(i)] = DedupKeys[CleanedAt(j)]
            /\ batch_out # None =>
                   Cardinality({k \in 1..Len(Output) :
                       \/ Accepted(i) /\ Output[k] = CleanedAt(i)
                       \/ Accepted(j) /\ Output[k] = CleanedAt(j)}) <= 1

\* two records that differ in case and whitespace were both accepted and
\* scored above the threshold, and one record came out
C5_Witness ==
    /\ batch_out # None
    /\ Len(Output) = 1
    /\ \E i, j \in 1..Len(jobs) :
        /\ i < j
        /\ RequiredOf(jobs[i]) # RequiredOf(jobs[j])
        /\ Folded[jobs[i]] = Folded[jobs[j]]
        /\ Accepted(i) /\ Accepted(j)
        /\ QualityScores[CleanedAt(i)] >= ScoreScale * min_quality_score
        /\ QualityScores[CleanedAt(j)] >= ScoreScale * min_quality_score

\* C6: clean_batch never raises; a record that fails validation or raises
\* is skipped, and every other record is still processed: each accepted
\* record that reaches the threshold has its dedup key in the output, and
\* every output record is the cleaned form of an accepted record
C6_FailuresSkipped ==
    batch_out # None =>
        /\ batch_out[1].kind = "return"
        /\ \A i \in 1..Len(jobs) :
               (/\ Accepted(i)
                /\ QualityScores[CleanedAt(i)] >= ScoreScale * min_quality_score
                /\ DedupKeys[CleanedAt(i)] # "")
                   => \E k \in 1..Len(Output) :
                          DedupKeys[Output[k]] = DedupKeys[CleanedAt(i)]
        /\ \A k \in 1..Len(Output) :
               \E i \in 1..Len(jobs) : Accepted(i) /\ Output[k] = CleanedAt(i)

\* a record that raised and a record that failed validation each come
\* before a good record of the batch, or the good one comes out after a
\* raising one: the good record's cleaned form is in the output
C6_Witness ==
    /\ batch_out # None
    /\ batch_out[1].kind = "return"
    /\ \E i, j \in 1..Len(jobs) :
        /\ i < j
        /\ Validated[jobs[i]].kind = "raise"
        /\ Accepted(j)
        /\ CleanedAt(j) \in Range(Output)

\* C7: every record clean_batch returns is the cleaned form of a record that
\* passed validation, and its quality score is at least min_quality_score
C7_OutputValidatedAndScored ==
    batch_out # None =>
        \A k \in 1..Len(Output) :
            /\ \E i \in 1..Len(jobs) : Accepted(i) /\ Output[k] = CleanedAt(i)
            /\ QualityScores[Output[k]] >= ScoreScale * min_quality_score

\* under the default threshold one accepted record scored too low and was
\* left out while another one came out
C7_Witness ==
    /\ batch_out # None
    /\ min_quality_score = default_min_quality_score
    /\ Len(Output) >= 1
    /\ \E i \in 1..Len(jobs) :
        /\ Accepted(i)
        /\ QualityScores[CleanedAt(i)] < ScoreScale * min_quality_score
        /\ CleanedAt(i) \notin Range(Output)

\* C8: in every record clean_batch returns, title, department and location
\* are non-empty
C8_RequiredNonEmptyAfterCleaning ==
    batch_out # None =>
        \A k \in 1..Len(Output) :
            \A f \in 1..3 : Populated(Output[k][required_fields[f]])

\* C11: in every ParsedJob of parse_job and in every cleaned record of
\* validate_job_data, age_min <= age_max whenever both are present
C11_AgeMinAtMostMax ==
    /\ \A i \in 1..Len(parsed) :
           (parsed[i].kind = "ParsedJob" /\ parsed[i].age_min # None /\ parsed[i].age_max # None)
               => parsed[i].age_min[1] <= parsed[i].age_max[1]
    /\ batch_out # None =>
           \A k \in 1..Len(Output) :
               (Output[k].age_min # None /\ Output[k].age_max # None)
                   => Output[k].age_min[2] <= Output[k].age_max[2]

\* the validity window of a date when the record is processed at Now:
\* Now - 365 days <= dt <= Now + 730 days
InWindow(dt) == ShiftedLE(Now, -365, dt) /\ ShiftedGE(Now, 730, dt)

\* C12: posting_date and deadline_date of every ParsedJob and of every cleaned
\* record are null or lie within [processing time - 365 days, processing
\* time + 730 days], bounds included
C12_DatesInWindow ==
    /\ \A i \in 1..Len(parsed) :
           parsed[i].kind = "ParsedJob" =>
               /\ parsed[i].posting_date = None \/ InWindow(parsed[i].posting_date[1])
               /\ parsed[i].deadline_date = None \/ InWindow(parsed[i].deadline_date[1])
    /\ batch_out # None =>
           \A k \in 1..Len(Output) :
               /\ Output[k].posting_date = None \/ InWindow(Output[k].posting_date[2])
               /\ Output[k].deadline_date = None \/ InWindow(Output[k].deadline_date[2])

\* C13: clean_text is idempotent: clean_text(clean_text(x)) = clean_text(x)
C13_CleanTextIdempotent ==
    Len(cleaned) >= 2 => cleaned[2] = cleaned[1]

\* C14: clean_text returns a trimmed string with no HTML tag, no run of two
\* or more whitespace characters and no character outside word characters,
\* whitespace and . , ( ) -; the empty text gives the empty string
C14_CleanTextNormalForm ==
    Len(cleaned) >= 1 =>
        /\ strip(cleaned[1]) = cleaned[1]
        /\ ~search(TagP, cleaned[1], FALSE).ok
        /\ ~search(Cat(<<S, S>>), cleaned[1], FALSE).ok
        /\ ~search(SpecialP, cleaned[1], FALSE).ok
        /\ input_text = "" => cleaned[1] = ""

\* all required, important and additional fields of a record are populated
FullyPopulated(job) ==
    /\ CountPopulated(job, required_fields) = Len(required_fields)
    /\ CountPopulated(job, important_fields) = Len(important_fields)
    /\ CountPopulated(job, additional_fields) = Len(additional_fields)

\* C15: the quality score clean_batch computes for a record lies in [0, 100],
\* and is at least 90 for a record whose three required, three important and
\* four additional fields are all populated
C15_ScoreInRange ==
    batch_out # None =>
        \A i \in 1..Len(jobs) :
            Accepted(i) =>
                /\ 0 <= QualityScores[CleanedAt(i)]
                /\ QualityScores[CleanedAt(i)] <= 100 * ScoreScale
                /\ FullyPopulated(CleanedAt(i)) => QualityScores[CleanedAt(i)] >= 90 * ScoreScale
\* clean_batch has scored a fully populated record and a sparse one
C15_Witness ==
    /\ batch_out # None
    /\ \E i \in 1..Len(jobs) :
           Accepted(i) /\ FullyPopulated(CleanedAt(i))
               /\ QualityScores[CleanedAt(i)] >= 90 * ScoreScale
    /\ \E i \in 1..Len(jobs) :
           Accepted(i) /\ ~FullyPopulated(CleanedAt(i))
               /\ QualityScores[CleanedAt(i)] < 90 * ScoreScale

\* the absent value of every extractor
AbsentInfo == [skills |-> <<>>, education |-> None, experience |-> None, salary |-> None,
               age_min |-> None, age_max |-> None, vacancies |-> None, grade |-> None,
               deadline |-> None]
\* descriptions with nothing to extract: a number with no unit, dates with
\* day 32, month 13 or 31 February, words no pattern knows
NoMatchTexts == {"25", "32-01-2025", "15-13-2025", "31-02-2025", "apply soon"}

\* C16 (as amended): no extractor raises; a description with no match or
\* with malformed content gives every extractor's absent value; a
\* fresh-graduate phrase with no number gives the label "Fresh Graduate" for
\* the experience and the absent value for the rest; a date that matches a
\* shape but does not exist is passed over and the next shape is tried
C16_NoRaiseAbsentOrLabel ==
    \A k \in 1..Len(extracted) :
        /\ extracted[k].kind = "dict"
        /\ input_text \in NoMatchTexts => extracted[k].fields = AbsentInfo
        /\ input_text = "fresh graduate" =>
               extracted[k].fields = [AbsentInfo EXCEPT !.experience = Some("Fresh Graduate")]
        /\ input_text = "31-02-2025 2025-03-01" =>
               extracted[k].fields = [AbsentInfo EXCEPT !.deadline = Some(<<2025, 3, 1, 0>>)]
\* C16 as stated: the fresh-graduate phrase with no number gives the absent
\* value of every extractor, like the other descriptions with no match
C16_AbsentOnFreshPhrase ==
    \A k \in 1..Len(extracted) :
        /\ extracted[k].kind = "dict"
        /\ input_text \in NoMatchTexts \cup {"fresh graduate"} =>
               extracted[k].fields = AbsentInfo
\* the extraction has passed over 31 February and built the date after it
C16_Witness ==
    /\ extracted # <<>>
    /\ input_text = "31-02-2025 2025-03-01"
    /\ extracted[1].kind = "dict"
    /\ extracted[1].fields.deadline = Some(<<2025, 3, 1, 0>>)

\* C17: extraction is deterministic: for one text every call returns the same
\* value, in every run; the education terms are joined in the same order
\* each time
C17_SameValueEveryCall ==
    \A j, k \in 1..Len(extracted) :
        /\ extracted[j].kind = extracted[k].kind
        /\ (extracted[j].kind = "dict" /\ input_text # "") =>
               \* the skills are compared as the set they stand for
               /\ Range(extracted[j].fields.skills) = Range(extracted[k].fields.skills)
               /\ [extracted[j].fields EXCEPT !.skills = <<>>]
                      = [extracted[k].fields EXCEPT !.skills = <<>>]

AgeRangeByPriority(age_text) ==
    LET N(text, k, n) == Some(ToInt(group(search(age_patterns[k], text, FALSE), text, n)))
        First(text, k) ==
            IF k = 1 THEN <<N(text, 1, 1), N(text, 1, 2)>>
            ELSE IF k = 2 THEN <<None, N(text, 2, 1)>>
            ELSE IF k = 3 THEN <<N(text, 3, 1), None>>
            ELSE IF k = 4 THEN <<N(text, 4, 1), N(text, 4, 1)>>
            ELSE <<None, None>>
        Lowered(text) == First(text, FirstMatching(age_patterns, text, FALSE))
    IN  Lowered(lower(age_text))

\* C19: the age range of a parsed record is the one its age text gives by the
\* first matching pattern in priority order: (A, B) for 'A to B' or 'A-B',
\* else (None, N) for 'maximum N', else (N, None) for 'minimum N', else
\* (N, N) for a bare 'N years', and (None, None) for no match or no text
C19_AgeRangeByFirstPattern ==
    \A i \in 1..Len(parsed) :
        raw_jobs[i] \notin MissingRequired =>
            /\ parsed[i].kind = "ParsedJob"
            /\ <<parsed[i].age_min, parsed[i].age_max>>
                   = AgeRangeByPriority(Get(raw_jobs[i], "age", ""))

\* C20: _parse_date and extract_application_deadline give the same calendar
\* date for the renderings YYYY-MM-DD, DD-MM-YYYY, DD/MM/YYYY and
\* 'MonthName DD, YYYY' of a valid date, and None for a text with no date in
\* it and for the empty text
C20_RenderingsGiveTheDate ==
    extracted # <<>> =>
        /\ \A date \in ValidDates, shape \in Shapes :
               input_text = Rendered[date][shape] =>
                   extracted[1] = [parser |-> Some(date), extractor |-> Some(date)]
        /\ input_text \in NoDateTexts \cup {""} =>
               extracted[1] = [parser |-> None, extractor |-> None]
\* 29 February of the leap year, written with the month's name, has been parsed
C20_Witness ==
    /\ input_text = "February 29, 2024"
    /\ extracted = <<[parser |-> Some(<<2024, 2, 29, 0>>), extractor |-> Some(<<2024, 2, 29, 0>>)]>>


\* the experience the priority order gives for a text: the label when a
\* fresh-graduate phrase occurs in it, else the numbers of the first numeric
\* pattern found in it as 'N-M years' or 'N+ years', else None
ExperienceByPriority(description) ==
    LET Numeric == SubSeq(experience_patterns, 1, 4)
        Format(text, m) == IF HasGroup(m, 2)
                           THEN Some(group(m, text, 1) \o "-" \o group(m, text, 2) \o " years")
                           ELSE Some(group(m, text, 1) \o "+ years")
        Numbers(text, k) == IF k = 0 THEN None ELSE Format(text, search(Numeric[k], text, FALSE))
        Read(text) == IF search(FreshP, text, FALSE).ok THEN Some("Fresh Graduate")
                      ELSE Numbers(text, FirstMatching(Numeric, text, FALSE))
    IN  Read(lower(description))
\* 'N-M years' or 'N+ years', and nothing else
ExperienceShape ==
    Cat(<<Bol, Plus(D), Alt(<<Cat(<<Lit("-"), Plus(D)>>), Lit("+")>>), Lit(" years"), Eol>>)

\* C21: in extract_experience a fresh-graduate phrase anywhere in the text
\* gives exactly 'Fresh Graduate', also beside a numeric 'N years experience'
\* phrase; without one the result is the first matching numeric pattern as
\* 'N-M years' or 'N+ years', or None
C21_FreshGraduateWins ==
    \A k \in 1..Len(extracted) :
        (extracted[k].kind = "dict" /\ input_text # "") =>
            /\ extracted[k].fields.experience = ExperienceByPriority(input_text)
            /\ extracted[k].fields.experience \notin {None, Some("Fresh Graduate")} =>
                   search(ExperienceShape, extracted[k].fields.experience[1], FALSE).ok
\* the label was given for a text that also holds a numeric phrase
C21_Witness ==
    /\ extracted # <<>>
    /\ extracted[1].kind = "dict"
    /\ input_text = "fresh graduate 3-5 years of experience"
    /\ extracted[1].fields.experience = Some("Fresh Graduate")

(***************************************************************************)
(* Salary cleaning: a salary text arrives and is handed to clean_salary    *)
(***************************************************************************)
\* amounts with no, one and two thousands separators
SalaryAmounts == {"50000", "22,000", "1,000,000", "1,20,000"}
SalaryJoins == {" - ", " to ", " "}
SalaryUnits == {"", " Taka", " per month"}
\* salary texts with no amount, or with an amount the patterns read in part
SalaryWords == {"negotiable", "As per rules", " ", "$", "grade 9",
                "pay scale: 22,000 - 53,870", "Tk. 22,000/-", "22,000 - 53,870 Taka"}
SalaryTexts ==
    SalaryWords
    \cup {a \o u : a \in SalaryAmounts, u \in SalaryUnits}
    \cup {a \o j \o b \o u : a \in SalaryAmounts, j \in SalaryJoins, b \in SalaryAmounts,
                              u \in SalaryUnits}

\* a salary text arrives
WriteSalary(salary) ==
    /\ input_text = "" /\ cleaned = <<>>
    /\ input_text' = salary
    /\ UNCHANGED <<raw_jobs, parsed, jobs, min_quality_score, batch_out, unique_out, cleaned,
                   extractVars, threadVars, retryVars>>

\* clean_salary(salary): what it returned is recorded
CleanSalary ==
    /\ input_text # "" /\ cleaned = <<>>
    /\ cleaned' = <<clean_salary(input_text)>>
    /\ UNCHANGED <<raw_jobs, parsed, jobs, min_quality_score, batch_out, unique_out, input_text,
                   extractVars, threadVars, retryVars>>

NextSalary ==
    \/ \E salary \in SalaryTexts : WriteSalary(salary)
    \/ CleanSalary

SpecSalary == Init /\ [][NextSalary]_vars

\* '<low>-<high> BDT' or '<value> BDT', and nothing else
SalaryShape == Cat(<<Bol, Plus(D), Opt(Cat(<<Lit("-"), Plus(D)>>)), Lit(" BDT"), Eol>>)

\* C22: clean_salary on a text with a number gives '<low>-<high> BDT' or
\* '<value> BDT' ('22,000 - 53,870 Taka' gives '22000-53870 BDT'); on a text
\* that no pattern matches it gives the cleaned text title-cased, and None
\* when nothing is left of the text
C22_SalaryShape ==
    cleaned # <<>> =>
        /\ search(D, input_text, FALSE).ok =>
               cleaned[1] # None /\ search(SalaryShape, cleaned[1][1], FALSE).ok
        /\ input_text = "22,000 - 53,870 Taka" => cleaned[1] = Some("22000-53870 BDT")
        /\ input_text = "50000 to 22,000 per month" => cleaned[1] = Some("50000-22000 BDT")
        /\ input_text = "50000 Taka" => cleaned[1] = Some("50000 BDT")
        /\ input_text = "negotiable" => cleaned[1] = Some("Negotiable")
        /\ input_text = "As per rules" => cleaned[1] = Some("As Per Rules")
        /\ input_text \in {" ", "$"} => cleaned[1] = None
        /\ (~search(D, input_text, FALSE).ok /\ cleaned[1] # None) =>
               cleaned[1][1] = title(cleaned[1][1])
\* a range with a unit was formatted
C22_Witness ==
    /\ cleaned # <<>>
    /\ input_text = "22,000 - 53,870 Taka"
    /\ cleaned[1] = Some("22000-53870 BDT")

\* the digits of an amount, its commas deleted
WithoutCommas(amount) == sub(Lit(","), "", amount, FALSE)

\* C28: clean_salary reads a number written with any number of comma groups
\* as the integer its digits spell, and its result holds no comma
C28_CommasDeleted ==
    cleaned # <<>> =>
        /\ \A a \in SalaryAmounts, u \in SalaryUnits :
               input_text = a \o u => cleaned[1] = Some(WithoutCommas(a) \o " BDT")
        /\ \A a \in SalaryAmounts, j \in SalaryJoins, b \in SalaryAmounts, u \in SalaryUnits :
               input_text = a \o j \o b \o u =>
                   cleaned[1] = Some(WithoutCommas(a) \o "-" \o WithoutCommas(b) \o " BDT")
        /\ cleaned[1] # None => ~search(Lit(","), cleaned[1][1], FALSE).ok

(***************************************************************************)
(* Skill cleaning: clean_skills is called on a list of skills              *)
(***************************************************************************)
MaxSkills == 2
\* skills in the table, in another case or spacing, outside the table, short
\* ones, generic ones and the empty one
SkillNames == {"js", "JS", "ms office", "MS  Office", "html5", "python", "Python", "sql",
               "node.js", "go", "the", ""}
SkillLists == UNION {[1..n -> SkillNames] : n \in 0..MaxSkills}

\* clean_skills(skills): the list given and the list returned are recorded
CleanSkills(skills) ==
    /\ cleaned = <<>>
    /\ cleaned' = <<[skills |-> skills, result |-> clean_skills(skills)]>>
    /\ UNCHANGED <<raw_jobs, parsed, jobs, min_quality_score, batch_out, unique_out, input_text,
                   extractVars, threadVars, retryVars>>

NextSkills == \E skills \in SkillLists : CleanSkills(skills)

SpecSkills == Init /\ [][NextSkills]_vars

\* the table value of a skill that is a key of the normalization table
TableValue(skill) ==
    LET Value(keys) == IF keys = {} THEN None ELSE Some(skill_mappings[CHOOSE i \in keys : TRUE][2])
    IN  Value({i \in 1..Len(skill_mappings) : skill_mappings[i][1] = clean_text(lower(skill))})
\* the name the statement gives an input skill, None when it is dropped
SkillByTable(skill) ==
    IF TableValue(skill) # None THEN TableValue(skill)
    ELSE IF Len(clean_text(lower(skill))) <= 2 \/ clean_text(lower(skill)) \in generic_skills
    THEN None
    ELSE Some(title(clean_text(lower(skill))))

\* C23: clean_skills returns a duplicate-free, sorted list that holds, for
\* every input skill, its table value when it is a key of the normalization
\* table ('js' as 'JavaScript'), else its title-cased form unless it has at
\* most 2 characters or is generic, and nothing else
C23_SkillsNormalised ==
    \A k \in 1..Len(cleaned) :
        LET given == cleaned[k].skills
            result == cleaned[k].result
        IN  /\ \A i, j \in 1..Len(result) : i < j => StrLess(result[i], result[j])
            /\ Range(result) = {SkillByTable(given[i])[1] :
                                  i \in {n \in 1..Len(given) : SkillByTable(given[n]) # None}}

(***************************************************************************)
(* ScraperManager (app/scrapers/scraper_manager.py): the scraper yields    *)
(* raw records or fails, and scrape_all_sources parses and deduplicates    *)
(***************************************************************************)
\* the names the module scraper_manager.py binds: it has no import and no
\* assignment, only the class statement
scraper_manager_globals == {"ScraperManager"}

RECURSIVE ParseLoop(_, _, _)
\* the loop over raw_jobs (lines 24-29) from outcomes[k] on, outcomes[k]
\* being what parse_job returns or raises on the k-th record: the jobs
\* appended to all_jobs, and the exception that leaves the loop, if any
ParseLoop(outcomes, k, all_jobs) ==
    IF k > Len(outcomes) THEN [all_jobs |-> all_jobs, raised |-> ""]
    ELSE IF outcomes[k].kind = "ParsedJob"
    THEN ParseLoop(outcomes, k + 1, Append(all_jobs, outcomes[k]))
    \* except Exception as e: logger.error(...)
    ELSE IF "logger" \in scraper_manager_globals THEN ParseLoop(outcomes, k + 1, all_jobs)
    ELSE [all_jobs |-> all_jobs, raised |-> "NameError"]

RECURSIVE DedupById(_, _, _)
\* _deduplicate_jobs: the loop from jobs[k] on
DedupById(jobs_, k, seen_ids) ==
    IF k > Len(jobs_) THEN <<>>
    ELSE IF jobs_[k].job_id \notin seen_ids
    THEN <<jobs_[k]>> \o DedupById(jobs_, k + 1, seen_ids \cup {jobs_[k].job_id})
    ELSE DedupById(jobs_, k + 1, seen_ids)
_deduplicate_jobs(jobs_) == DedupById(jobs_, 1, {})

\* scrape_all_sources with the one scraper class of self.scrapers: the
\* scraper fails (its setup or scrape_jobs raises) or yields the raw records
\* whose parse outcomes are outcomes
scrape_all_sources(scraper_fails, outcomes) ==
    LET logger_bound == "logger" \in scraper_manager_globals
        Raise == [kind |-> "raise", exc |-> "NameError", jobs |-> <<>>]
        \* lines 36-40
        Finish(all_jobs) ==
            IF logger_bound
            THEN [kind |-> "return", exc |-> "", jobs |-> _deduplicate_jobs(all_jobs)]
            ELSE Raise
        \* the except clause of line 33: logger.error(...)
        ScraperFailed(all_jobs) == IF logger_bound THEN Finish(all_jobs) ELSE Raise
        Parsed(loop) == IF loop.raised # "" THEN ScraperFailed(loop.all_jobs)
                        ELSE Finish(loop.all_jobs)
    IN  IF scraper_fails THEN ScraperFailed(<<>>)
        \* line 20: logger.info(...)
        ELSE IF ~logger_bound THEN ScraperFailed(<<>>)
        ELSE Parsed(ParseLoop(outcomes, 1, <<>>))

\* the scraper yields one more raw record
ScraperYields(raw) ==
    /\ unique_out = None
    /\ Fetch(raw)

\* scrape_all_sources(): what parse_job gives on each record the scraper
\* yielded, and what the call returned or raised, are recorded
ScrapeAllSources ==
    /\ unique_out = None /\ parsed = <<>>
    /\ \E scraper_fails \in BOOLEAN :
       \E outcomes \in {f \in [1..Len(raw_jobs) -> UNION {parse_job_in(raw, hash_seed) : raw \in RawRecords}] :
                          \A i \in 1..Len(raw_jobs) : f[i] \in parse_job_in(raw_jobs[i], hash_seed)} :
           /\ parsed' = IF scraper_fails THEN <<>> ELSE outcomes
           /\ unique_out' = Some([scraper_failed |-> scraper_fails]
                                 @@ scrape_all_sources(scraper_fails, outcomes))
    /\ UNCHANGED <<raw_jobs, jobs, min_quality_score, batch_out>>
    /\ UNCHANGED <<textVars, extractVars, threadVars, retryVars>>

NextScrape ==
    \/ \E raw \in RawRecords : ScraperYields(raw)
    \/ ScrapeAllSources

SpecScrape == Init /\ [][NextScrape]_vars

\* the jobs parsed without failure, in arrival order, each later job whose
\* job_id was already seen removed
FirstOfEachId(outcomes) ==
    LET Survivors == SelectSeq(outcomes, LAMBDA outcome : outcome.kind = "ParsedJob")
        Kept == {i \in 1..Len(Survivors) :
                   \A j \in 1..(i - 1) : Survivors[j].job_id # Survivors[i].job_id}
        RECURSIVE From(_)
        From(i) == IF i > Len(Survivors) THEN <<>>
                   ELSE IF i \in Kept THEN <<Survivors[i]>> \o From(i + 1) ELSE From(i + 1)
    IN  From(1)

\* C24: in scrape_all_sources a record whose parse fails, or a scraper that
\* fails, affects only itself: the call returns, and returns exactly the jobs
\* parsed without failure, in arrival order, without the later jobs of a
\* job_id already seen
C24_FailuresStayLocal ==
    unique_out # None =>
        /\ unique_out[1].kind = "return"
        /\ unique_out[1].jobs = FirstOfEachId(parsed)

\* the batch's i-th record passed validation and reached the threshold
Admitted(i) ==
    Accepted(i) /\ QualityScores[CleanedAt(i)] >= ScoreScale * min_quality_score
\* no admitted record before the i-th has the dedup key of the i-th
FirstAdmittedOfKey(i) ==
    \A j \in 1..(i - 1) : Admitted(j) => DedupKeys[CleanedAt(j)] # DedupKeys[CleanedAt(i)]

\* C25: clean_batch filters before it deduplicates: a rejected record never
\* suppresses a later record with its dedup key, and the output is, in input
\* order, the first admitted record of every key that has an admitted record
C25_FirstAdmittedOfEachKey ==
    batch_out # None =>
        Output = [k \in 1..Len(SelectSeq(Positions, LAMBDA i : Admitted(i) /\ FirstAdmittedOfKey(i))) |->
                    CleanedAt(SelectSeq(Positions, LAMBDA i : Admitted(i) /\ FirstAdmittedOfKey(i))[k])]

\* cleaned title, normalized department and normalized location of each job
\* dict, lower-cased
CleanedTriples ==
    [job \in JobDicts |->
        <<lower(clean_title(Get(job, "title", ""))),
          lower(normalize_department(Get(job, "department", ""))),
          lower(normalize_location(Get(job, "location", "")))>>] @@ <<>>

\* C26: the dedup key identifies the cleaned triple: two records have the
\* same key only if their cleaned titles, departments and locations are
\* pairwise equal ignoring case, and deduplicate_jobs keeps every record whose
\* triple is not all empty and differs from the triple of every record before
C26_KeyIdentifiesTriple ==
    /\ \A i, j \in 1..Len(jobs) :
           DedupKeys[jobs[i]] = DedupKeys[jobs[j]]
               => CleanedTriples[jobs[i]] = CleanedTriples[jobs[j]]
    /\ unique_out # None =>
           \A i \in 1..Len(jobs) :
               (/\ CleanedTriples[jobs[i]] # <<"", "", "">>
                /\ \A j \in 1..(i - 1) : CleanedTriples[jobs[j]] # CleanedTriples[jobs[i]])
                   => jobs[i] \in Range(unique_out[1])

(***************************************************************************)
(* Title cleaning: a title arrives and is handed to clean_title, and the   *)
(* result is handed to clean_title again                                   *)
(***************************************************************************)
MaxWords == 3
\* words of the boilerplate phrases, an abbreviation and plain words
TitleWords == {"post", "job", "of", "Recruitment", "circular", "asst", "Engineer"}
Titles == {Join(words, 1, " ") : words \in UNION {[1..n -> TitleWords] : n \in 1..MaxWords}}

\* a title arrives
WriteTitle(job_title) ==
    /\ input_text = "" /\ cleaned = <<>>
    /\ input_text' = job_title
    /\ UNCHANGED <<raw_jobs, parsed, jobs, min_quality_score, batch_out, unique_out, cleaned,
                   extractVars, threadVars, retryVars>>

\* clean_title on the title, then on what the call before returned
CleanTitle ==
    /\ input_text # ""
    /\ Len(cleaned) < MaxCalls
    /\ cleaned' = Append(cleaned, clean_title(IF cleaned = <<>> THEN input_text
                                              ELSE cleaned[Len(cleaned)]))
    /\ UNCHANGED <<raw_jobs, parsed, jobs, min_quality_score, batch_out, unique_out, input_text,
                   extractVars, threadVars, retryVars>>

NextTitle ==
    \/ \E job_title \in Titles : WriteTitle(job_title)
    \/ CleanTitle

SpecTitle == Init /\ [][NextTitle]_vars

\* C27: clean_title is idempotent and leaves none of the phrases it strips
\* (post of, position of, job of, recruitment, hiring, vacancy, advertisement,
\* circular), so the key part of an already cleaned title is that of the raw
\* title
C27_CleanTitleIdempotent ==
    /\ Len(cleaned) >= 1 =>
           \A k \in 1..Len(redundant_patterns) : ~search(redundant_patterns[k], cleaned[1], TRUE).ok
    /\ Len(cleaned) >= 2 =>
           /\ cleaned[2] = cleaned[1]
           /\ strip(lower(cleaned[2])) = strip(lower(cleaned[1]))

(***************************************************************************)
(* Location normalisation: a location arrives and is handed to the three   *)
(* normalizers                                                             *)
(***************************************************************************)
\* FieldExtractor.location_mapping, in insertion order
extractor_location_mapping == <<
    <<"dhaka", "Dhaka">>, <<"chittagong", "Chittagong">>, <<"chattogram", "Chittagong">>,
    <<"sylhet", "Sylhet">>, <<"rajshahi", "Rajshahi">>, <<"khulna", "Khulna">>,
    <<"barisal", "Barisal">>, <<"barishal", "Barisal">>, <<"rangpur", "Rangpur">>,
    <<"mymensingh", "Mymensingh">>, <<"comilla", "Comilla">>, <<"cox's bazar", "Cox's Bazar">>,
    <<"jessore", "Jessore">>, <<"bogra", "Bogra">>, <<"faridpur", "Faridpur">>,
    <<"pabna", "Pabna">> >>

\* FieldExtractor.normalize_location
extractor_normalize_location(location) ==
    IF location = "" THEN ""
    ELSE LET Proper(words) == Join([i \in 1..Len(words) |-> capitalize(words[i])], 1, " ")
             Mapped(location_clean, hit) ==
                 IF hit > 0 THEN extractor_location_mapping[hit][2]
                 ELSE Proper(split(location_clean))
             Cleaned(location_clean) ==
                 Mapped(location_clean, FirstHit(extractor_location_mapping, location_clean))
         IN  Cleaned(sub(NotIn(WordChars \cup Spaces \cup {"'"}), "", strip(lower(location)), FALSE))

\* cities of the alias tables under both spellings, a city only
\* FieldExtractor's table has, a town of no table
LocationCities == {"Dhaka", "Chittagong", "chattogram", "Barisal", "barishal", "Comilla",
                   "Cox's Bazar", "Gazipur"}
LocationSuffixes == {"", " District", " Sadar"}
LocationTexts ==
    {city \o suffix : city \in LocationCities, suffix \in LocationSuffixes}
    \cup {a \o ", " \o b : a \in LocationCities, b \in LocationCities}

\* a location arrives
WriteLocation(location) ==
    /\ input_text = "" /\ extracted = <<>>
    /\ input_text' = location
    /\ UNCHANGED <<raw_jobs, parsed, jobs, min_quality_score, batch_out, unique_out, cleaned,
                   extractVars, threadVars, retryVars>>

\* the three normalizers on the location: what each returned is recorded
NormalizeLocation ==
    /\ input_text # "" /\ extracted = <<>>
    /\ extracted' = <<[parser |-> _normalize_location(input_text),
                       extractor |-> extractor_normalize_location(input_text),
                       cleaner |-> normalize_location(input_text)]>>
    /\ UNCHANGED <<raw_jobs, parsed, jobs, min_quality_score, batch_out, unique_out, textVars,
                   hash_seed, threadVars, retryVars>>

NextLocation ==
    \/ \E location \in LocationTexts : WriteLocation(location)
    \/ NormalizeLocation

SpecLocation == Init /\ [][NextLocation]_vars

\* C29: JobParser._normalize_location, FieldExtractor.normalize_location and
\* DataCleaner.normalize_location return the same value for every location
C29_NormalizersAgree ==
    \A k \in 1..Len(extracted) :
        /\ extracted[k].parser = extracted[k].extractor
        /\ extracted[k].extractor = extracted[k].cleaner

(***************************************************************************)
(* BaseScraper.scrape_with_retry.  One call is followed statement by       *)
(* statement: retry.pc is the statement it stands at, retry.attempt the    *)
(* loop variable, retry.outcomes what each call of _scrape_url did,        *)
(* retry.slept the arguments of the asyncio.sleep calls of the handler     *)
(* (the random pause of _delay is not a backoff and is not recorded), and  *)
(* retry.result the value returned.  _scrape_url is abstract: an attempt   *)
(* either returns a page or raises an Exception.                           *)
(***************************************************************************)
\* settings.SCRAPER_RETRIES
SCRAPER_RETRIES == 3

MaxRetries == 3
Urls == {"https://bpsc.gov.bd/a", "https://bpsc.gov.bd/b"}
Pages == {"circular", "notice"}
\* the retries argument: left out (None) or a count
RetryArguments == {None} \cup {Some(n) : n \in 0..MaxRetries}

\* a pause that grows by two seconds an attempt
backoff_linear(attempt) == 2 * attempt
\* asyncio.sleep(2 ** attempt)
backoff(attempt) == 2 ^ attempt

\* scrape_with_retry is called: an omitted retries takes the setting
CallScrapeWithRetry(url, retries) ==
    /\ retry.pc = "idle"
    /\ retry' = [retry EXCEPT !.pc = "for", !.url = url,
                              !.retries = IF retries = None THEN SCRAPER_RETRIES
                                          ELSE retries[1]]
    /\ UNCHANGED <<raw_jobs, parsed, jobs, min_quality_score, batch_out, unique_out, textVars,
                   extractVars, threadVars>>

\* for attempt in range(retries): the next attempt begins, or the range is
\* used up and the function returns None
ForAttempt ==
    /\ retry.pc = "for"
    /\ retry' = IF retry.attempt < retry.retries
                THEN [retry EXCEPT !.pc = "try"]
                ELSE [retry EXCEPT !.pc = "returned", !.result = None]
    /\ UNCHANGED <<raw_jobs, parsed, jobs, min_quality_score, batch_out, unique_out, textVars,
                   extractVars, threadVars>>

\* the try body, _scrape_url returning: its value is returned at once
ScrapeUrlReturns(page) ==
    /\ retry.pc = "try"
    /\ retry' = [retry EXCEPT !.pc = "returned",
                              !.outcomes = Append(@, [raised |-> FALSE, value |-> page]),
                              !.result = Some(page)]
    /\ UNCHANGED <<raw_jobs, parsed, jobs, min_quality_score, batch_out, unique_out, textVars,
                   extractVars, threadVars>>

\* the try body, _scrape_url raising an Exception: control enters the handler
ScrapeUrlRaises ==
    /\ retry.pc = "try"
    /\ retry' = [retry EXCEPT !.pc = "except",
                              !.outcomes = Append(@, [raised |-> TRUE, value |-> ""])]
    /\ UNCHANGED <<raw_jobs, parsed, jobs, min_quality_score, batch_out, unique_out, textVars,
                   extractVars, threadVars>>

\* except Exception: on the last attempt None is returned, otherwise the
\* call sleeps and the loop goes on
ExceptException ==
    /\ retry.pc = "except"
    /\ retry' = IF retry.attempt = retry.retries - 1
                THEN [retry EXCEPT !.pc = "returned", !.result = None]
                ELSE [retry EXCEPT !.pc = "for",
                                   !.slept = Append(@, backoff(retry.attempt)),
                                   !.attempt = @ + 1]
    /\ UNCHANGED <<raw_jobs, parsed, jobs, min_quality_score, batch_out, unique_out, textVars,
                   extractVars, threadVars>>

NextRetry ==
    \/ \E url \in Urls, retries \in RetryArguments : CallScrapeWithRetry(url, retries)
    \/ ForAttempt
    \/ \E page \in Pages : ScrapeUrlReturns(page)
    \/ ScrapeUrlRaises
    \/ ExceptException

SpecRetry == Init /\ [][NextRetry]_vars

\* the attempts made so far that failed and were not the last one allowed
FailedBeforeLast ==
    {k \in 1..Len(retry.outcomes) : retry.outcomes[k].raised /\ k < retry.retries}

\* C30: scrape_with_retry calls _scrape_url at most retries times; it returns
\* the value of the first attempt that succeeds and makes no attempt after
\* it; it returns None once retries attempts in a row have failed, and with
\* no attempt at all when retries is 0; it ends by returning, never by
\* raising; after each failed attempt but the last allowed one it sleeps
\* 2^attempt seconds, attempt counting from 0
C30_RetryThenGiveUp ==
    /\ Len(retry.outcomes) <= retry.retries
    /\ \A k \in 1..(Len(retry.outcomes) - 1) : retry.outcomes[k].raised
    /\ retry.pc \in {"idle", "for", "try", "except", "returned"}
    /\ retry.pc = "returned" =>
          \/ /\ retry.result # None
             /\ ~retry.outcomes[Len(retry.outcomes)].raised
             /\ retry.result = Some(retry.outcomes[Len(retry.outcomes)].value)
          \/ /\ retry.result = None
             /\ Len(retry.outcomes) = retry.retries
             /\ \A k \in 1..Len(retry.outcomes) : retry.outcomes[k].raised
    /\ \A i \in 1..Len(retry.slept) : retry.slept[i] = 2 ^ (i - 1)
    /\ retry.pc \in {"for", "try", "returned"} =>
          Len(retry.slept) = Cardinality(FailedBeforeLast)

\* two attempts fail, the third succeeds: the call slept 1 and 2 seconds
C30_Witness ==
    /\ retry.pc = "returned"
    /\ retry.retries = 3
    /\ Len(retry.outcomes) = 3
    /\ retry.result = Some("notice")
    /\ retry.slept = <<1, 2>>

=============================================================================
